---------------------------- MODULE Spec2Model ----------------------------
(***************************************************************************)
(* A model of the SimpleLang-to-Python compiler: the lexer                 *)
(* (compiler/lexer/lexer.py), the recursive-descent parser                 *)
(* (compiler/parser/parser.py), the semantic analyzer                      *)
(* (compiler/semantic/analyzer.py), the code generator                     *)
(* (compiler/codegen/generator.py) and the driver compile_source           *)
(* (simplelang.py).                                                        *)
(*                                                                         *)
(* Python values are modelled as records with a "kind" field; Python's     *)
(* None is the record None.  An exception raised by a function is the      *)
(* "err" field of the record the function's operator returns: every caller *)
(* propagates a non-None err unchanged, as an uncaught exception does.     *)
(***************************************************************************)
EXTENDS Integers, Sequences, FiniteSets, TLC

VARIABLES
    pc,          \* position of the driver inside compile_source
    source,      \* source_code: the sequence of characters handed to Lexer
    tokens,      \* tokens: the list returned by lexer.tokenize()
    ast,         \* ast: the Program returned by parser.parse()
    symbols,     \* analyzer.symbol_table.symbols: name -> type
    frames,      \* the analyzer's active visit_* calls with a statement loop,
                 \* innermost first
    python_code, \* python_code: the text returned by generator.generate(ast)
    exception,   \* the exception in flight inside compile_source, or None
    outcome,     \* what compile_source hands to its caller, or None
    calls,       \* history: the stages invoked so far, in order
    visited      \* history: the positions of the statements the analyzer's
                 \* visit_statement was called on (block statements), in order

vars == <<pc, source, tokens, ast, symbols, frames, python_code, exception,
          outcome, calls, visited>>

None == [kind |-> "None"]

(***************************************************************************)
(* Tokens (compiler/lexer/token.py).                                       *)
(***************************************************************************)
Token(type, value, line, column) ==
    [type |-> type, value |-> value, line |-> line, column |-> column]

(***************************************************************************)
(* The lexer (compiler/lexer/lexer.py).  A Lexer object is the record      *)
(* [source, pos, line, column, tokens]; source is a sequence of            *)
(* one-character strings.                                                  *)
(***************************************************************************)
LexerError(message, line, column) ==
    [kind |-> "LexerError", message |-> message, line |-> line, column |-> column]

Digits == {"0", "1", "2", "3", "4", "5", "6", "7", "8", "9"}

Letters ==
    {"a", "b", "c", "d", "e", "f", "g", "h", "i", "j", "k", "l", "m",
     "n", "o", "p", "q", "r", "s", "t", "u", "v", "w", "x", "y", "z",
     "A", "B", "C", "D", "E", "F", "G", "H", "I", "J", "K", "L", "M",
     "N", "O", "P", "Q", "R", "S", "T", "U", "V", "W", "X", "Y", "Z"}

Whitespace == {" ", "\t", "\r", "\n"}

\* str.isdigit() and str.isalnum() are True for the ASCII digits and for the
\* other characters of the Unicode digit categories; of those the model has
\* the superscript two, which int() does not accept.
OtherDigits == {"²"}

isdigit(c) == c \in Digits \cup OtherDigits
isalpha(c) == c \in Letters
isalnum(c) == c \in Letters \cup Digits \cup OtherDigits

\* int() of one decimal digit.
DigitValue(c) ==
    CASE c = "0" -> 0 [] c = "1" -> 1 [] c = "2" -> 2 [] c = "3" -> 3 [] c = "4" -> 4
      [] c = "5" -> 5 [] c = "6" -> 6 [] c = "7" -> 7 [] c = "8" -> 8 [] c = "9" -> 9

\* Lexer.KEYWORDS.get(id_str, TokenType.IDENTIFIER)
KEYWORDS(id_str) ==
    CASE id_str = "int" -> "INT"
      [] id_str = "bool" -> "BOOL"
      [] id_str = "print" -> "PRINT"
      [] id_str = "if" -> "IF"
      [] id_str = "else" -> "ELSE"
      [] id_str = "while" -> "WHILE"
      [] id_str = "for" -> "FOR"
      [] id_str = "return" -> "RETURN"
      [] id_str = "function" -> "FUNCTION"
      [] id_str = "true" -> "TRUE"
      [] id_str = "false" -> "FALSE"
      [] OTHER -> "IDENTIFIER"

\* A lexer whose token list is shared by every instance (a class attribute
\* `tokens = []` instead of the assignment in __init__).
Lexer_shared_tokens(src) ==
    [source |-> src, pos |-> 0, line |-> 1, column |-> 1, tokens |-> tokens]

Lexer(src) == [source |-> src, pos |-> 0, line |-> 1, column |-> 1, tokens |-> <<>>]

\* The character at the cursor, or None at the end of the text.
current_char(lx) ==
    IF lx.pos >= Len(lx.source) THEN None ELSE [kind |-> "char", c |-> lx.source[lx.pos + 1]]

peek_char(lx) ==
    IF lx.pos + 1 >= Len(lx.source) THEN None
    ELSE [kind |-> "char", c |-> lx.source[lx.pos + 2]]

\* An advance that leaves the column running across a line break.
lexer_advance_keeps_column(lx) ==
    IF lx.pos < Len(lx.source)
    THEN IF lx.source[lx.pos + 1] = "\n"
         THEN [lx EXCEPT !.line = @ + 1, !.column = @ + 1, !.pos = @ + 1]
         ELSE [lx EXCEPT !.column = @ + 1, !.pos = @ + 1]
    ELSE lx

lexer_advance(lx) ==
    IF lx.pos < Len(lx.source)
    THEN IF lx.source[lx.pos + 1] = "\n"
         THEN [lx EXCEPT !.line = @ + 1, !.column = 1, !.pos = @ + 1]
         ELSE [lx EXCEPT !.column = @ + 1, !.pos = @ + 1]
    ELSE lx

RECURSIVE skip_whitespace(_)
skip_whitespace(lx) ==
    IF current_char(lx) # None /\ current_char(lx).c \in Whitespace
    THEN skip_whitespace(lexer_advance(lx))
    ELSE lx

ValueError(message) == [kind |-> "ValueError", message |-> message]

\* num_str += c: num_str, the value of its decimal digits and whether int()
\* accepts it.
digit_read(num, c) ==
    IF c \in Digits
    THEN [num EXCEPT !.num_str = @ \o c, !.value = 10 * @ + DigitValue(c)]
    ELSE [num EXCEPT !.num_str = @ \o c, !.decimal = FALSE]

\* The loop of read_number.
RECURSIVE read_number_loop(_, _)
read_number_loop(lx, num) ==
    IF current_char(lx) # None /\ isdigit(current_char(lx).c)
    THEN read_number_loop(lexer_advance(lx), digit_read(num, current_char(lx).c))
    ELSE [lexer |-> lx, num |-> num]

\* Token(TokenType.NUMBER, int(num_str), start_line, start_column); int()
\* raises ValueError on a num_str that is not decimal.
number_token(r, line, column) ==
    IF r.num.decimal
    THEN [lexer |-> r.lexer, err |-> None,
          token |-> Token("NUMBER", r.num.value, line, column)]
    ELSE [lexer |-> r.lexer, token |-> None,
          err |-> ValueError("invalid literal for int() with base 10: '"
                             \o r.num.num_str \o "'")]

\* read_number: [lexer, token, err]
read_number(lx) ==
    number_token(read_number_loop(lx, [num_str |-> "", value |-> 0, decimal |-> TRUE]),
                 lx.line, lx.column)

\* self.tokens.append(...) of what read_number returned, if it returned.
append_number(r) ==
    IF r.err # None THEN [lexer |-> r.lexer, err |-> r.err]
    ELSE [lexer |-> [r.lexer EXCEPT !.tokens = Append(@, r.token)], err |-> None]

RECURSIVE read_identifier_loop(_, _)
read_identifier_loop(lx, id_str) ==
    IF current_char(lx) # None /\ (isalnum(current_char(lx).c) \/ current_char(lx).c = "_")
    THEN read_identifier_loop(lexer_advance(lx), id_str \o current_char(lx).c)
    ELSE [lexer |-> lx, id_str |-> id_str]

read_identifier_or_keyword(lx) ==
    LET first == IF current_char(lx) # None
                    /\ (isalpha(current_char(lx).c) \/ current_char(lx).c = "_")
                 THEN [lexer |-> lexer_advance(lx), id_str |-> current_char(lx).c]
                 ELSE [lexer |-> lx, id_str |-> ""]
        r == read_identifier_loop(first.lexer, first.id_str)
    IN  [lexer |-> r.lexer,
         token |-> Token(KEYWORDS(r.id_str), r.id_str, lx.line, lx.column)]

\* The characters that are a token on their own, whatever follows.
SingleCharType(c) ==
    CASE c = "+" -> "PLUS" [] c = "-" -> "MINUS" [] c = "*" -> "MULTIPLY"
      [] c = "/" -> "DIVIDE" [] c = "%" -> "MODULO" [] c = ";" -> "SEMICOLON"
      [] c = "(" -> "LPAREN" [] c = ")" -> "RPAREN" [] c = "{" -> "LBRACE"
      [] c = "}" -> "RBRACE" [] c = "[" -> "LBRACKET" [] c = "]" -> "RBRACKET"
      [] c = "," -> "COMMA" [] OTHER -> "none"

\* Appends a token and advances over its n characters.
push_token(lx, token, n) ==
    LET l1 == [lx EXCEPT !.tokens = Append(@, token)] IN
    IF n = 2 THEN lexer_advance(lexer_advance(l1)) ELSE lexer_advance(l1)

\* One pass of the body of tokenize's while loop after the whitespace was
\* skipped, the cursor on a character: [lexer, err].
scan_token(lx) ==
    LET char == current_char(lx).c
        line == lx.line
        column == lx.column
        next_is(c) == peek_char(lx) # None /\ peek_char(lx).c = c
        ok(l) == [lexer |-> l, err |-> None]
    IN
    CASE isdigit(char) -> append_number(read_number(lx))
      [] isalpha(char) \/ char = "_" ->
            LET r == read_identifier_or_keyword(lx) IN
            ok([r.lexer EXCEPT !.tokens = Append(@, r.token)])
      [] SingleCharType(char) # "none" ->
            ok(push_token(lx, Token(SingleCharType(char), char, line, column), 1))
      [] char = "=" ->
            IF next_is("=") THEN ok(push_token(lx, Token("EQ", "==", line, column), 2))
            ELSE ok(push_token(lx, Token("ASSIGN", char, line, column), 1))
      [] char = "!" ->
            IF next_is("=") THEN ok(push_token(lx, Token("NE", "!=", line, column), 2))
            ELSE ok(push_token(lx, Token("NOT", char, line, column), 1))
      [] char = "<" ->
            IF next_is("=") THEN ok(push_token(lx, Token("LE", "<=", line, column), 2))
            ELSE ok(push_token(lx, Token("LT", char, line, column), 1))
      [] char = ">" ->
            IF next_is("=") THEN ok(push_token(lx, Token("GE", ">=", line, column), 2))
            ELSE ok(push_token(lx, Token("GT", char, line, column), 1))
      [] char = "&" ->
            IF next_is("&") THEN ok(push_token(lx, Token("AND", "&&", line, column), 2))
            ELSE [lexer |-> lx,
                  err |-> LexerError("Unexpected character '" \o char
                                     \o "' (did you mean '&&'?)", line, column)]
      [] char = "|" ->
            IF next_is("|") THEN ok(push_token(lx, Token("OR", "||", line, column), 2))
            ELSE [lexer |-> lx,
                  err |-> LexerError("Unexpected character '" \o char
                                     \o "' (did you mean '||'?)", line, column)]
      [] OTHER ->
            [lexer |-> lx,
             err |-> LexerError("Unexpected character '" \o char \o "'", line, column)]

\* The while loop of tokenize.
RECURSIVE tokenize_loop(_)
tokenize_loop(lx) ==
    IF current_char(lx) = None THEN [lexer |-> lx, err |-> None]
    ELSE LET l1 == skip_whitespace(lx) IN
         IF current_char(l1) = None THEN [lexer |-> l1, err |-> None]
         ELSE LET r == scan_token(l1) IN
              IF r.err # None THEN r ELSE tokenize_loop(r.lexer)

\* tokenize(): the Lexer after the call and the exception raised, if any; the
\* list returned is lexer.tokens.
tokenize(lx) ==
    LET r == tokenize_loop(lx) IN
    IF r.err # None THEN r
    ELSE [lexer |-> [r.lexer EXCEPT !.tokens =
                        Append(@, Token("EOF", None, r.lexer.line, r.lexer.column))],
          err |-> None]

(***************************************************************************)
(* AST nodes (compiler/parser/ast_nodes.py).                               *)
(***************************************************************************)
Program(statements) == [kind |-> "Program", statements |-> statements]

Declaration(var_type, name, value, line, column) ==
    [kind |-> "Declaration", var_type |-> var_type, name |-> name,
     value |-> value, line |-> line, column |-> column]

Assignment(name, value, line, column) ==
    [kind |-> "Assignment", name |-> name, value |-> value,
     line |-> line, column |-> column]

PrintStatement(expression, line, column) ==
    [kind |-> "PrintStatement", expression |-> expression,
     line |-> line, column |-> column]

IfStatement(condition, then_block, else_block, line, column) ==
    [kind |-> "IfStatement", condition |-> condition, then_block |-> then_block,
     else_block |-> else_block, line |-> line, column |-> column]

WhileStatement(condition, body, line, column) ==
    [kind |-> "WhileStatement", condition |-> condition, body |-> body,
     line |-> line, column |-> column]

BinaryOp(left, operator, right, line, column) ==
    [kind |-> "BinaryOp", left |-> left, operator |-> operator, right |-> right,
     line |-> line, column |-> column]

Number(value, line, column) ==
    [kind |-> "Number", value |-> value, line |-> line, column |-> column]

Identifier(name, line, column) ==
    [kind |-> "Identifier", name |-> name, line |-> line, column |-> column]

Boolean(value, line, column) ==
    [kind |-> "Boolean", value |-> value, line |-> line, column |-> column]

UnaryOp(operator, operand, line, column) ==
    [kind |-> "UnaryOp", operator |-> operator, operand |-> operand,
     line |-> line, column |-> column]

\* The node classes below are imported by parser.py, analyzer.py and
\* generator.py but ast_nodes.py does not define them; their fields are the
\* ones the three visitors read, in the order the parser passes them.
ForStatement(init, condition, update, body, line, column) ==
    [kind |-> "ForStatement", init |-> init, condition |-> condition,
     update |-> update, body |-> body, line |-> line, column |-> column]

FunctionDeclaration(name, params, return_type, body, line, column) ==
    [kind |-> "FunctionDeclaration", name |-> name, params |-> params,
     return_type |-> return_type, body |-> body, line |-> line, column |-> column]

ReturnStatement(expression, line, column) ==
    [kind |-> "ReturnStatement", expression |-> expression,
     line |-> line, column |-> column]

ArrayLiteral(elements, line, column) ==
    [kind |-> "ArrayLiteral", elements |-> elements, line |-> line, column |-> column]

ArrayAccess(array, index, line, column) ==
    [kind |-> "ArrayAccess", array |-> array, index |-> index,
     line |-> line, column |-> column]

FunctionCall(name, arguments, line, column) ==
    [kind |-> "FunctionCall", name |-> name, arguments |-> arguments,
     line |-> line, column |-> column]

(***************************************************************************)
(* The parser (compiler/parser/parser.py).  Parser.pos is threaded through *)
(* the operators: each takes the token list and the cursor and returns     *)
(* [node, pos, err].                                                       *)
(***************************************************************************)
ParserError(message, token) ==
    [kind |-> "ParserError", message |-> message, token |-> token]

Ok(node, pos) == [node |-> node, pos |-> pos, err |-> None]
Fail(err, pos) == [node |-> None, pos |-> pos, err |-> err]

\* Sequencing: an exception raised while r was computed leaves the calling
\* function too; otherwise the function goes on with r's result.
Then(r, Continuation(_)) ==
    CHOOSE next \in {IF done.err # None THEN Fail(done.err, done.pos)
                     ELSE Continuation(done) : done \in {r}} : TRUE

\* Parser.pos is 0-based; TLA+ sequences are 1-based.
current_token(toks, pos) ==
    IF pos >= Len(toks) THEN toks[Len(toks)] ELSE toks[pos + 1]

advance(toks, pos) ==
    IF pos < Len(toks) - 1 THEN pos + 1 ELSE pos

\* An expect that advances before it raises.
expect_advances_first(toks, pos, token_type) ==
    LET token == current_token(toks, pos) IN
    IF token.type # token_type
    THEN Fail(ParserError("Expected " \o token_type \o ", got " \o token.type, token),
              advance(toks, pos))
    ELSE Ok(token, advance(toks, pos))

\* expect returns the consumed token as node.
expect(toks, pos, token_type) ==
    LET token == current_token(toks, pos) IN
    IF token.type # token_type
    THEN Fail(ParserError("Expected " \o token_type \o ", got " \o token.type, token), pos)
    ELSE Ok(token, advance(toks, pos))

ComparisonTypes == {"EQ", "NE", "LT", "LE", "GT", "GE"}
ArithmeticTypes == {"PLUS", "MINUS"}
\* A term level that takes '+' for one of its own operators.
TermTypesWithPlus == {"MULTIPLY", "DIVIDE", "MODULO", "PLUS"}
TermTypes == {"MULTIPLY", "DIVIDE", "MODULO"}
UnaryTypes == {"NOT", "MINUS"}

\* BinaryOp(left, operator, right, op_token.line, op_token.column)
binary(left, op_token, right) ==
    BinaryOp(left, op_token.value, right, op_token.line, op_token.column)

RECURSIVE parse_expression(_, _)
RECURSIVE parse_logical_and(_, _)
RECURSIVE parse_comparison(_, _)
RECURSIVE parse_arithmetic(_, _)
RECURSIVE parse_term(_, _)
RECURSIVE logical_or_loop(_, _, _, _)
RECURSIVE logical_and_loop(_, _, _, _)
RECURSIVE comparison_loop(_, _, _, _)
RECURSIVE arithmetic_loop(_, _, _, _)
RECURSIVE term_loop(_, _, _, _)
RECURSIVE parse_unary(_, _)
RECURSIVE parse_factor(_, _)
RECURSIVE expression_list_loop(_, _, _)

\* Each level of the ladder is `left = next(); while op: right = next();
\* left = BinaryOp(left, op, right)`.  A loop operator parses one operand at
\* pos: the first one when op_token is None, else the right operand of
\* op_token, whose left operand is the node built so far.
operand_node(left, op_token, operand) ==
    IF op_token = None THEN operand ELSE binary(left, op_token, operand)

logical_or_loop(toks, pos, left, op_token) ==
    Then(parse_logical_and(toks, pos), LAMBDA operand:
    IF current_token(toks, operand.pos).type = "OR"
    THEN logical_or_loop(toks, advance(toks, operand.pos),
                 operand_node(left, op_token, operand.node),
                 current_token(toks, operand.pos))
    ELSE Ok(operand_node(left, op_token, operand.node), operand.pos))

parse_logical_or(toks, pos) == logical_or_loop(toks, pos, None, None)

logical_and_loop(toks, pos, left, op_token) ==
    Then(parse_comparison(toks, pos), LAMBDA operand:
    IF current_token(toks, operand.pos).type = "AND"
    THEN logical_and_loop(toks, advance(toks, operand.pos),
                 operand_node(left, op_token, operand.node),
                 current_token(toks, operand.pos))
    ELSE Ok(operand_node(left, op_token, operand.node), operand.pos))

parse_logical_and(toks, pos) == logical_and_loop(toks, pos, None, None)

comparison_loop(toks, pos, left, op_token) ==
    Then(parse_arithmetic(toks, pos), LAMBDA operand:
    IF current_token(toks, operand.pos).type \in ComparisonTypes
    THEN comparison_loop(toks, advance(toks, operand.pos),
                 operand_node(left, op_token, operand.node),
                 current_token(toks, operand.pos))
    ELSE Ok(operand_node(left, op_token, operand.node), operand.pos))

parse_comparison(toks, pos) == comparison_loop(toks, pos, None, None)

\* An additive level that folds to the right: the rest of the chain becomes
\* the right operand.
RECURSIVE arithmetic_loop_right_fold(_, _, _, _)
arithmetic_loop_right_fold(toks, pos, left, op_token) ==
    Then(parse_term(toks, pos), LAMBDA operand:
    IF current_token(toks, operand.pos).type \in ArithmeticTypes
    THEN Then(arithmetic_loop_right_fold(toks, advance(toks, operand.pos), None, None),
              LAMBDA rest:
              Ok(binary(operand.node, current_token(toks, operand.pos), rest.node),
                 rest.pos))
    ELSE Ok(operand.node, operand.pos))

arithmetic_loop(toks, pos, left, op_token) ==
    Then(parse_term(toks, pos), LAMBDA operand:
    IF current_token(toks, operand.pos).type \in ArithmeticTypes
    THEN arithmetic_loop(toks, advance(toks, operand.pos),
                 operand_node(left, op_token, operand.node),
                 current_token(toks, operand.pos))
    ELSE Ok(operand_node(left, op_token, operand.node), operand.pos))

parse_arithmetic(toks, pos) == arithmetic_loop(toks, pos, None, None)

term_loop(toks, pos, left, op_token) ==
    Then(parse_unary(toks, pos), LAMBDA operand:
    IF current_token(toks, operand.pos).type \in TermTypes
    THEN term_loop(toks, advance(toks, operand.pos),
                 operand_node(left, op_token, operand.node),
                 current_token(toks, operand.pos))
    ELSE Ok(operand_node(left, op_token, operand.node), operand.pos))

parse_term(toks, pos) == term_loop(toks, pos, None, None)

parse_unary(toks, pos) ==
    LET token == current_token(toks, pos) IN
    IF token.type \in UnaryTypes
    THEN Then(parse_unary(toks, advance(toks, pos)), LAMBDA operand:
         Ok(UnaryOp(token.value, operand.node, token.line, token.column), operand.pos))
    ELSE parse_factor(toks, pos)

\* The loop `while current is COMMA: advance; append(parse_expression())` of
\* the argument list and of the array literal; acc is the list so far.
expression_list_loop(toks, pos, acc) ==
    IF current_token(toks, pos).type # "COMMA" THEN Ok(acc, pos)
    ELSE Then(parse_expression(toks, advance(toks, pos)), LAMBDA e:
         expression_list_loop(toks, e.pos, Append(acc, e.node)))

\* `if current is not <closing>: append(parse_expression()); while COMMA ...`
expression_list(toks, pos, closing) ==
    IF current_token(toks, pos).type = closing THEN Ok(<<>>, pos)
    ELSE Then(parse_expression(toks, pos), LAMBDA e:
         expression_list_loop(toks, e.pos, <<e.node>>))

parse_factor(toks, pos) ==
    LET token == current_token(toks, pos)
        p1 == advance(toks, pos)
    IN
    CASE token.type = "NUMBER" -> Ok(Number(token.value, token.line, token.column), p1)
      [] token.type = "TRUE" -> Ok(Boolean(TRUE, token.line, token.column), p1)
      [] token.type = "FALSE" -> Ok(Boolean(FALSE, token.line, token.column), p1)
      [] token.type = "IDENTIFIER" ->
            IF current_token(toks, p1).type = "LBRACKET"
            THEN Then(parse_expression(toks, advance(toks, p1)), LAMBDA index:
                 Then(expect(toks, index.pos, "RBRACKET"), LAMBDA e:
                 Ok(ArrayAccess(Identifier(token.value, token.line, token.column),
                                index.node, token.line, token.column), e.pos)))
            ELSE IF current_token(toks, p1).type = "LPAREN"
            THEN Then(expression_list(toks, advance(toks, p1), "RPAREN"), LAMBDA arguments:
                 Then(expect(toks, arguments.pos, "RPAREN"), LAMBDA e:
                 Ok(FunctionCall(token.value, arguments.node, token.line, token.column),
                    e.pos)))
            ELSE Ok(Identifier(token.value, token.line, token.column), p1)
      [] token.type = "LBRACKET" ->
            Then(expression_list(toks, p1, "RBRACKET"), LAMBDA elements:
            Then(expect(toks, elements.pos, "RBRACKET"), LAMBDA e:
            Ok(ArrayLiteral(elements.node, token.line, token.column), e.pos)))
      [] token.type = "LPAREN" ->
            Then(parse_expression(toks, p1), LAMBDA expr:
            Then(expect(toks, expr.pos, "RPAREN"), LAMBDA e:
            Ok(expr.node, e.pos)))
      [] OTHER ->
            Fail(ParserError("Unexpected token " \o token.type \o ", expected expression",
                             token), pos)

parse_expression(toks, pos) == parse_logical_or(toks, pos)

\* else_block is None or a Python list; a list held where None may stand is
\* wrapped in a record, so that the two can be told apart.
List(items) == [kind |-> "list", items |-> items]

TypeKeywords == {"INT", "BOOL"}

RECURSIVE parse_statement(_, _)
RECURSIVE block_loop(_, _, _, _)
RECURSIVE params_loop(_, _, _)

\* `while self.current_token().type != closing: acc.append(parse_statement())`
\* closing is RBRACE for a block and EOF for parse_program.
block_loop(toks, pos, closing, acc) ==
    IF current_token(toks, pos).type = closing THEN Ok(acc, pos)
    ELSE Then(parse_statement(toks, pos), LAMBDA s:
         block_loop(toks, s.pos, closing, Append(acc, s.node)))

\* LBRACE statement* RBRACE, the cursor on the LBRACE.
parse_block(toks, pos) ==
    Then(expect(toks, pos, "LBRACE"), LAMBDA l:
    Then(block_loop(toks, l.pos, "RBRACE", <<>>), LAMBDA b:
    Then(expect(toks, b.pos, "RBRACE"), LAMBDA r:
    Ok(b.node, r.pos))))

parse_declaration(toks, pos) ==
    LET type_token == current_token(toks, pos) IN
    IF type_token.type \notin TypeKeywords
    THEN Fail(ParserError("Expected type, got " \o type_token.type, type_token), pos)
    ELSE
    Then(expect(toks, advance(toks, pos), "IDENTIFIER"), LAMBDA id:
    Then(expect(toks, id.pos, "ASSIGN"), LAMBDA a:
    Then(parse_expression(toks, a.pos), LAMBDA value:
    Then(expect(toks, value.pos, "SEMICOLON"), LAMBDA s:
    Ok(Declaration(type_token.value, id.node.value, value.node,
                   type_token.line, type_token.column), s.pos)))))

parse_assignment(toks, pos) ==
    Then(expect(toks, pos, "IDENTIFIER"), LAMBDA id:
    IF current_token(toks, id.pos).type = "LBRACKET"
    THEN
        Then(parse_expression(toks, advance(toks, id.pos)), LAMBDA index:
        Then(expect(toks, index.pos, "RBRACKET"), LAMBDA rb:
        Then(expect(toks, rb.pos, "ASSIGN"), LAMBDA a:
        Then(parse_expression(toks, a.pos), LAMBDA value:
        Then(expect(toks, value.pos, "SEMICOLON"), LAMBDA s:
        \* the parsed index expression is dropped here
        Ok(Assignment(id.node.value \o "[INDEX]", value.node,
                      id.node.line, id.node.column), s.pos))))))
    ELSE
        Then(expect(toks, id.pos, "ASSIGN"), LAMBDA a:
        Then(parse_expression(toks, a.pos), LAMBDA value:
        Then(expect(toks, value.pos, "SEMICOLON"), LAMBDA s:
        Ok(Assignment(id.node.value, value.node, id.node.line, id.node.column),
           s.pos)))))

parse_print_statement(toks, pos) ==
    Then(expect(toks, pos, "PRINT"), LAMBDA print_token:
    Then(expect(toks, print_token.pos, "LPAREN"), LAMBDA l:
    Then(parse_expression(toks, l.pos), LAMBDA expr:
    Then(expect(toks, expr.pos, "RPAREN"), LAMBDA r:
    Then(expect(toks, r.pos, "SEMICOLON"), LAMBDA s:
    Ok(PrintStatement(expr.node, print_token.node.line, print_token.node.column),
       s.pos))))))

\* LPAREN expression RPAREN, as in parse_if_statement and parse_while_statement.
parse_condition(toks, pos) ==
    Then(expect(toks, pos, "LPAREN"), LAMBDA l:
    Then(parse_expression(toks, l.pos), LAMBDA condition:
    Then(expect(toks, condition.pos, "RPAREN"), LAMBDA r:
    Ok(condition.node, r.pos))))

parse_if_statement(toks, pos) ==
    Then(expect(toks, pos, "IF"), LAMBDA if_token:
    Then(parse_condition(toks, if_token.pos), LAMBDA condition:
    Then(parse_block(toks, condition.pos), LAMBDA then_block:
    IF current_token(toks, then_block.pos).type = "ELSE"
    THEN Then(parse_block(toks, advance(toks, then_block.pos)), LAMBDA else_block:
         Ok(IfStatement(condition.node, then_block.node, List(else_block.node),
                        if_token.node.line, if_token.node.column), else_block.pos))
    ELSE Ok(IfStatement(condition.node, then_block.node, None,
                        if_token.node.line, if_token.node.column), then_block.pos))))

parse_while_statement(toks, pos) ==
    Then(expect(toks, pos, "WHILE"), LAMBDA while_token:
    Then(parse_condition(toks, while_token.pos), LAMBDA condition:
    Then(parse_block(toks, condition.pos), LAMBDA body:
    Ok(WhileStatement(condition.node, body.node,
                      while_token.node.line, while_token.node.column), body.pos))))

\* An init part that leaves the ';' of an absent init where it is.
parse_for_init_keeps_semicolon(toks, pos) ==
    IF current_token(toks, pos).type # "SEMICOLON"
    THEN IF current_token(toks, pos).type \in TypeKeywords
         THEN parse_declaration(toks, pos)
         ELSE parse_assignment(toks, pos)
    ELSE Ok(None, pos)

\* The init part of a for statement, the first ';' included.
parse_for_init(toks, pos) ==
    IF current_token(toks, pos).type # "SEMICOLON"
    THEN IF current_token(toks, pos).type \in TypeKeywords
         THEN parse_declaration(toks, pos)
         ELSE parse_assignment(toks, pos)
    ELSE Ok(None, advance(toks, pos))

\* The condition part, the second ';' included.
parse_for_condition(toks, pos) ==
    Then(IF current_token(toks, pos).type # "SEMICOLON"
         THEN parse_expression(toks, pos) ELSE Ok(None, pos), LAMBDA condition:
    Then(expect(toks, condition.pos, "SEMICOLON"), LAMBDA s:
    Ok(condition.node, s.pos)))

\* An update part that takes an indexed target as parse_assignment does.
parse_for_update_indexed(toks, pos) ==
    IF current_token(toks, pos).type # "RPAREN"
    THEN Then(expect(toks, pos, "IDENTIFIER"), LAMBDA id:
         IF current_token(toks, id.pos).type = "LBRACKET"
         THEN Then(parse_expression(toks, advance(toks, id.pos)), LAMBDA index:
              Then(expect(toks, index.pos, "RBRACKET"), LAMBDA rb:
              Then(expect(toks, rb.pos, "ASSIGN"), LAMBDA a:
              Then(parse_expression(toks, a.pos), LAMBDA value:
              Ok(Assignment(id.node.value \o "[INDEX]", value.node,
                            id.node.line, id.node.column), value.pos)))))
         ELSE Then(expect(toks, id.pos, "ASSIGN"), LAMBDA a:
              Then(parse_expression(toks, a.pos), LAMBDA value:
              Ok(Assignment(id.node.value, value.node, id.node.line, id.node.column),
                 value.pos))))
    ELSE Ok(None, pos)

\* The update part: an assignment without the ';'.
parse_for_update(toks, pos) ==
    IF current_token(toks, pos).type # "RPAREN"
    THEN Then(expect(toks, pos, "IDENTIFIER"), LAMBDA id:
         Then(expect(toks, id.pos, "ASSIGN"), LAMBDA a:
         Then(parse_expression(toks, a.pos), LAMBDA value:
         Ok(Assignment(id.node.value, value.node, id.node.line, id.node.column),
            value.pos))))
    ELSE Ok(None, pos)

parse_for_statement(toks, pos) ==
    Then(expect(toks, pos, "FOR"), LAMBDA for_token:
    Then(expect(toks, for_token.pos, "LPAREN"), LAMBDA l:
    Then(parse_for_init(toks, l.pos), LAMBDA init:
    Then(parse_for_condition(toks, init.pos), LAMBDA condition:
    Then(parse_for_update(toks, condition.pos), LAMBDA update:
    Then(expect(toks, update.pos, "RPAREN"), LAMBDA r:
    Then(parse_block(toks, r.pos), LAMBDA body:
    Ok(ForStatement(init.node, condition.node, update.node, body.node,
                    for_token.node.line, for_token.node.column), body.pos))))))))

\* One `type IDENTIFIER` parameter; node is the pair (param_type, param_name).
parse_param(toks, pos) ==
    LET param_type_token == current_token(toks, pos) IN
    IF param_type_token.type \notin TypeKeywords
    THEN Fail(ParserError("Expected type, got " \o param_type_token.type,
                          param_type_token), pos)
    ELSE Then(expect(toks, advance(toks, pos), "IDENTIFIER"), LAMBDA param_name_token:
         Ok(<<param_type_token.value, param_name_token.node.value>>,
            param_name_token.pos))

params_loop(toks, pos, params) ==
    IF current_token(toks, pos).type # "COMMA" THEN Ok(params, pos)
    ELSE Then(parse_param(toks, advance(toks, pos)), LAMBDA p:
         params_loop(toks, p.pos, Append(params, p.node)))

parse_params(toks, pos) ==
    IF current_token(toks, pos).type \in TypeKeywords
    THEN Then(parse_param(toks, pos), LAMBDA p: params_loop(toks, p.pos, <<p.node>>))
    ELSE Ok(<<>>, pos)

parse_function_declaration(toks, pos) ==
    Then(expect(toks, pos, "FUNCTION"), LAMBDA func_token:
    Then(expect(toks, func_token.pos, "IDENTIFIER"), LAMBDA name_token:
    Then(expect(toks, name_token.pos, "LPAREN"), LAMBDA l:
    Then(parse_params(toks, l.pos), LAMBDA params:
    Then(expect(toks, params.pos, "RPAREN"), LAMBDA r:
    Then(parse_block(toks, r.pos), LAMBDA body:
    Ok(FunctionDeclaration(name_token.node.value, params.node, "int", body.node,
                           func_token.node.line, func_token.node.column),
       body.pos)))))))

\* A return statement that is recognised and not consumed.
parse_return_statement_peek(toks, pos) ==
    Ok(ReturnStatement(None, current_token(toks, pos).line,
                       current_token(toks, pos).column), pos)

parse_return_statement(toks, pos) ==
    Then(expect(toks, pos, "RETURN"), LAMBDA return_token:
    Then(IF current_token(toks, return_token.pos).type # "SEMICOLON"
         THEN parse_expression(toks, return_token.pos)
         ELSE Ok(None, return_token.pos), LAMBDA expression:
    Then(expect(toks, expression.pos, "SEMICOLON"), LAMBDA s:
    Ok(ReturnStatement(expression.node, return_token.node.line,
                       return_token.node.column), s.pos))))

parse_statement(toks, pos) ==
    LET token == current_token(toks, pos) IN
    CASE token.type \in TypeKeywords -> parse_declaration(toks, pos)
      [] token.type = "PRINT" -> parse_print_statement(toks, pos)
      [] token.type = "IF" -> parse_if_statement(toks, pos)
      [] token.type = "WHILE" -> parse_while_statement(toks, pos)
      [] token.type = "FOR" -> parse_for_statement(toks, pos)
      [] token.type = "FUNCTION" -> parse_function_declaration(toks, pos)
      [] token.type = "RETURN" -> parse_return_statement(toks, pos)
      [] token.type = "IDENTIFIER" -> parse_assignment(toks, pos)
      [] OTHER ->
            Fail(ParserError("Unexpected token " \o token.type \o ", expected statement",
                             token), pos)

\* A loop test of parse_program that also ends the loop at a '}'.
more_statements_before_brace(toks, pos) ==
    current_token(toks, pos).type \notin {"EOF", "RBRACE"}

\* `self.current_token().type != TokenType.EOF`, the test of parse_program's
\* loop.
more_statements(toks, pos) == current_token(toks, pos).type # "EOF"

\* Parser(tokens)
Parser(toks) == [tokens |-> toks, pos |-> 0]

parse_program(toks, pos) ==
    Then(block_loop(toks, pos, "EOF", <<>>), LAMBDA statements:
    Ok(Program(statements.node), statements.pos))

\* Parser(tokens).parse(): the cursor starts at 0.
parse(toks) == parse_program(toks, 0)

(***************************************************************************)
(* The semantic analyzer (compiler/semantic/analyzer.py).                  *)
(* symbol_table.symbols is a function from names to types.  The operators  *)
(* on expressions return [type, err]; those on statements that do not      *)
(* recurse into blocks return [symbols, err].                              *)
(***************************************************************************)
SemanticError(message, line, column) ==
    [kind |-> "SemanticError", message |-> message, line |-> line, column |-> column]

\* Reading an attribute the object does not have.
AttributeError(message) == [kind |-> "AttributeError", message |-> message]

EmptySymbols == [n \in {} |-> "int"]

\* A declare that overwrites an existing binding instead of raising.
declare_overwrites(syms, name, var_type, line, column) ==
    [symbols |-> [n \in DOMAIN syms \cup {name} |-> IF n = name THEN var_type ELSE syms[n]],
     err |-> None]

\* SymbolTable.declare: [symbols, err]
declare(syms, name, var_type, line, column) ==
    IF name \in DOMAIN syms
    THEN [symbols |-> syms,
          err |-> SemanticError("Variable '" \o name \o "' already declared", line, column)]
    ELSE [symbols |-> (name :> var_type) @@ syms, err |-> None]

\* SymbolTable.lookup: [type, err]
lookup(syms, name, line, column) ==
    IF name \notin DOMAIN syms
    THEN [type |-> "", err |-> SemanticError("Undefined variable '" \o name \o "'",
                                             line, column)]
    ELSE [type |-> syms[name], err |-> None]

Typed(t) == [type |-> t, err |-> None]
TypeError(message, node) ==
    [type |-> "", err |-> SemanticError(message, node.line, node.column)]

RECURSIVE visit_expression(_, _)
RECURSIVE visit_all(_, _)

\* `for e in exprs: self.visit_expression(e)`: the first exception, or None.
visit_all(exprs, syms) ==
    IF exprs = <<>> THEN None
    ELSE LET r == visit_expression(Head(exprs), syms) IN
         IF r.err # None THEN r.err ELSE visit_all(Tail(exprs), syms)

visit_number(node) == Typed("int")

visit_boolean(node) == Typed("bool")

visit_identifier(node, syms) == lookup(syms, node.name, node.line, node.column)

\* The operator's own rule of visit_unary_op, the operand's type known.
unary_rule(node, operand_type) ==
    IF node.operator = "!"
    THEN IF operand_type # "bool"
         THEN TypeError("Unary operator '!' requires bool operand, got " \o operand_type, node)
         ELSE Typed("bool")
    ELSE IF node.operator = "-"
    THEN IF operand_type # "int"
         THEN TypeError("Unary operator '-' requires int operand, got " \o operand_type, node)
         ELSE Typed("int")
    ELSE TypeError("Unknown unary operator: " \o node.operator, node)

visit_unary_op(node, syms) ==
    LET operand == visit_expression(node.operand, syms) IN
    IF operand.err # None THEN operand ELSE unary_rule(node, operand.type)

\* A rule that holds == and != to the requirement of < and >: int operands.
binary_rule_equality_on_int(node, left_type, right_type) ==
    IF node.operator \in {"+", "-", "*", "/", "%"}
    THEN IF left_type # "int" \/ right_type # "int"
         THEN TypeError("Arithmetic operator '" \o node.operator
                        \o "' requires int operands", node)
         ELSE Typed("int")
    ELSE IF node.operator \in {"<", "<=", ">", ">=", "==", "!="}
    THEN IF left_type # "int" \/ right_type # "int"
         THEN TypeError("Comparison operator '" \o node.operator
                        \o "' requires int operands", node)
         ELSE Typed("bool")
    ELSE IF left_type # "bool" \/ right_type # "bool"
         THEN TypeError("Logical operator '" \o node.operator
                        \o "' requires bool operands", node)
         ELSE Typed("bool")

\* The operator's own rule of visit_binary_op, both operand types known.
binary_rule(node, left_type, right_type) ==
    IF node.operator \in {"+", "-", "*", "/", "%"}
    THEN IF left_type # "int" \/ right_type # "int"
         THEN TypeError("Arithmetic operator '" \o node.operator
                        \o "' requires int operands", node)
         ELSE Typed("int")
    ELSE IF node.operator \in {"<", "<=", ">", ">="}
    THEN IF left_type # "int" \/ right_type # "int"
         THEN TypeError("Comparison operator '" \o node.operator
                        \o "' requires int operands", node)
         ELSE Typed("bool")
    ELSE IF node.operator \in {"==", "!="}
    THEN IF left_type # right_type
         THEN TypeError("Equality operator '" \o node.operator
                        \o "' requires operands of same type", node)
         ELSE Typed("bool")
    ELSE IF node.operator \in {"&&", "||"}
    THEN IF left_type # "bool" \/ right_type # "bool"
         THEN TypeError("Logical operator '" \o node.operator
                        \o "' requires bool operands", node)
         ELSE Typed("bool")
    ELSE TypeError("Unknown binary operator: " \o node.operator, node)

\* A visit_binary_op that checks the right operand before the left one.
visit_binary_op_right_first(node, syms) ==
    LET right == visit_expression(node.right, syms) IN
    IF right.err # None THEN right ELSE
    LET left == visit_expression(node.left, syms) IN
    IF left.err # None THEN left ELSE
    binary_rule(node, left.type, right.type)

visit_binary_op(node, syms) ==
    LET left == visit_expression(node.left, syms) IN
    IF left.err # None THEN left ELSE
    LET right == visit_expression(node.right, syms) IN
    IF right.err # None THEN right ELSE
    binary_rule(node, left.type, right.type)

visit_array_literal(node, syms) ==
    LET e == visit_all(node.elements, syms) IN
    IF e # None THEN [type |-> "", err |-> e] ELSE Typed("int")

visit_array_access(node, syms) ==
    LET e == visit_all(<<node.array, node.index>>, syms) IN
    IF e # None THEN [type |-> "", err |-> e] ELSE Typed("int")

visit_function_call(node, syms) ==
    LET e == visit_all(node.arguments, syms) IN
    IF e # None THEN [type |-> "", err |-> e] ELSE Typed("int")

visit_expression(node, syms) ==
    CASE node.kind = "Number" -> visit_number(node)
      [] node.kind = "Boolean" -> visit_boolean(node)
      [] node.kind = "Identifier" -> visit_identifier(node, syms)
      [] node.kind = "BinaryOp" -> visit_binary_op(node, syms)
      [] node.kind = "UnaryOp" -> visit_unary_op(node, syms)
      [] node.kind = "ArrayLiteral" -> visit_array_literal(node, syms)
      [] node.kind = "ArrayAccess" -> visit_array_access(node, syms)
      [] node.kind = "FunctionCall" -> visit_function_call(node, syms)
      [] OTHER -> [type |-> "", err |-> SemanticError("Unknown expression type: "
                                                      \o node.kind, 0, 0)]

\* A visit_declaration that inserts the binding before it checks the
\* initializer.
visit_declaration_declares_first(node, syms) ==
    LET d == declare(syms, node.name, node.var_type, node.line, node.column) IN
    IF d.err # None THEN d ELSE
    LET expr == visit_expression(node.value, d.symbols) IN
    IF expr.err # None THEN [symbols |-> syms, err |-> expr.err] ELSE
    IF node.var_type # expr.type
    THEN [symbols |-> syms,
          err |-> SemanticError("Type mismatch: cannot assign " \o expr.type \o " to "
                                \o node.var_type, node.line, node.column)]
    ELSE d

visit_declaration(node, syms) ==
    LET expr == visit_expression(node.value, syms) IN
    IF expr.err # None THEN [symbols |-> syms, err |-> expr.err] ELSE
    IF node.var_type # expr.type
    THEN [symbols |-> syms,
          err |-> SemanticError("Type mismatch: cannot assign " \o expr.type \o " to "
                                \o node.var_type, node.line, node.column)]
    ELSE declare(syms, node.name, node.var_type, node.line, node.column)

\* An Assignment object has the fields name, value, line and column only
\* (ast_nodes.py), so the read of node.index that opens visit_assignment
\* raises AttributeError.
HasIndexField(node) == "index" \in DOMAIN node

visit_assignment(node, syms) ==
    IF ~HasIndexField(node)
    THEN [symbols |-> syms,
          err |-> AttributeError("'Assignment' object has no attribute 'index'")]
    ELSE
    IF node.index # None
    THEN LET var == lookup(syms, node.name, node.line, node.column) IN
         IF var.err # None THEN [symbols |-> syms, err |-> var.err] ELSE
         LET index == visit_expression(node.index, syms) IN
         IF index.err # None THEN [symbols |-> syms, err |-> index.err] ELSE
         LET expr == visit_expression(node.value, syms) IN
         IF expr.err # None THEN [symbols |-> syms, err |-> expr.err] ELSE
         IF expr.type # "int"
         THEN [symbols |-> syms,
               err |-> SemanticError("Type mismatch: cannot assign " \o expr.type
                                     \o " to array element (int)", node.line, node.column)]
         ELSE [symbols |-> syms, err |-> None]
    ELSE LET var == lookup(syms, node.name, node.line, node.column) IN
         IF var.err # None THEN [symbols |-> syms, err |-> var.err] ELSE
         LET expr == visit_expression(node.value, syms) IN
         IF expr.err # None THEN [symbols |-> syms, err |-> expr.err] ELSE
         IF var.type # expr.type
         THEN [symbols |-> syms,
               err |-> SemanticError("Type mismatch: cannot assign " \o expr.type
                                     \o " to " \o var.type, node.line, node.column)]
         ELSE [symbols |-> syms, err |-> None]

visit_print_statement(node, syms) ==
    [symbols |-> syms, err |-> visit_expression(node.expression, syms).err]

visit_return_statement(node, syms) ==
    IF node.expression # None
    THEN [symbols |-> syms, err |-> visit_expression(node.expression, syms).err]
    ELSE [symbols |-> syms, err |-> None]

\* A condition check that accepts a condition of any type.
check_condition_any_type(node, syms, what) ==
    visit_expression(node.condition, syms).err

\* The condition check that opens visit_if_statement and visit_while_statement;
\* what names the statement in the message ("If", "While").
check_condition(node, syms, what) ==
    LET c == visit_expression(node.condition, syms) IN
    IF c.err # None THEN c.err
    ELSE IF c.type # "bool"
    THEN SemanticError(what \o " condition must be bool, got " \o c.type,
                       node.line, node.column)
    ELSE None

\* visit_statement on the init or the update of a for statement, which the
\* parser makes a Declaration or an Assignment.
visit_simple_statement(node, syms) ==
    IF node.kind = "Declaration" THEN visit_declaration(node, syms)
    ELSE visit_assignment(node, syms)

\* visit_for_statement up to its body loop: init, condition, update.
visit_for_header(node, syms) ==
    LET init == IF node.init # None THEN visit_simple_statement(node.init, syms)
                ELSE [symbols |-> syms, err |-> None] IN
    IF init.err # None THEN init ELSE
    LET cond == IF node.condition # None
                THEN visit_expression(node.condition, init.symbols).err ELSE None IN
    IF cond # None THEN [symbols |-> init.symbols, err |-> cond] ELSE
    IF node.update # None THEN visit_simple_statement(node.update, init.symbols)
    ELSE init

RECURSIVE bind_params(_, _)
\* Parameters that leave a name the table already holds as it is, so that a
\* parameter does not shadow a global.
bind_params_keeps_globals(params, syms) ==
    IF params = <<>> THEN syms
    ELSE bind_params(Tail(params),
                     [n \in DOMAIN syms \cup {Head(params)[2]} |->
                        IF n \in DOMAIN syms THEN syms[n] ELSE Head(params)[1]])

\* `for param_type, param_name in node.params: symbols[param_name] = param_type`
bind_params(params, syms) ==
    IF params = <<>> THEN syms
    ELSE bind_params(Tail(params),
                     [n \in DOMAIN syms \cup {Head(params)[2]} |->
                        IF n = Head(params)[2] THEN Head(params)[1] ELSE syms[n]])

\* visit_function_declaration up to its body loop: [symbols, saved_symbols, err]
enter_function(node, syms) ==
    LET d == declare(syms, node.name, node.return_type, node.line, node.column) IN
    IF d.err # None THEN [symbols |-> syms, saved_symbols |-> syms, err |-> d.err]
    ELSE [symbols |-> bind_params(node.params, d.symbols),
          saved_symbols |-> d.symbols, err |-> None]

(***************************************************************************)
(* The code generator (compiler/codegen/generator.py).  A CodeGenerator    *)
(* object is the record [output, indent_level, levels]; output is the list *)
(* of emitted lines and levels is history: the values indent_level has     *)
(* taken, in order.  A Python str built by the generator is the sequence   *)
(* of its pieces, each piece a name, a number, a keyword, an operator, a   *)
(* punctuation mark or one space or line break; the text is the            *)
(* concatenation of the pieces.                                            *)
(***************************************************************************)
CodeGenerator == [output |-> <<>>, indent_level |-> 0, levels |-> <<0>>]

DigitStr(d) ==
    CASE d = 0 -> "0" [] d = 1 -> "1" [] d = 2 -> "2" [] d = 3 -> "3" [] d = 4 -> "4"
      [] d = 5 -> "5" [] d = 6 -> "6" [] d = 7 -> "7" [] d = 8 -> "8" [] d = 9 -> "9"

\* str() of a non-negative integer: one piece.
RECURSIVE str(_)
str(n) == IF n < 10 THEN DigitStr(n) ELSE str(n \div 10) \o DigitStr(n % 10)

\* '    ' * level
RECURSIVE indent(_)
indent(level) == IF level <= 0 THEN <<>> ELSE <<" ", " ", " ", " ">> \o indent(level - 1)

emit(g, line) == [g EXCEPT !.output = Append(@, indent(g.indent_level) \o line)]

\* sep.join(strings)
RECURSIVE join(_, _)
join(sep, strings) ==
    IF strings = <<>> THEN <<>>
    ELSE IF Len(strings) = 1 THEN strings[1]
    ELSE strings[1] \o sep \o join(sep, Tail(strings))

get_python_type(simplelang_type) == simplelang_type

unary_operator_map(operator) == IF operator = "!" THEN "not" ELSE operator

\* The operator_map of visit_binary_op without its '/' row: `/` stays `/`.
binary_operator_map_true_division(operator) ==
    CASE operator = "&&" -> "and"
      [] operator = "||" -> "or"
      [] OTHER -> operator

binary_operator_map(operator) ==
    CASE operator = "/" -> "//"
      [] operator = "&&" -> "and"
      [] operator = "||" -> "or"
      [] OTHER -> operator

RECURSIVE gen_expression(_)
RECURSIVE gen_expressions(_)

\* [self.visit_expression(e) for e in exprs]
gen_expressions(exprs) ==
    IF exprs = <<>> THEN <<>>
    ELSE <<gen_expression(Head(exprs))>> \o gen_expressions(Tail(exprs))

\* visit_expression with visit_binary_op returning f"{left_code} {operator}
\* {right_code}", no parentheses.
gen_expression_bare(node) ==
    CASE node.kind = "Number" -> <<str(node.value)>>
      [] node.kind = "Boolean" -> IF node.value THEN <<"True">> ELSE <<"False">>
      [] node.kind = "Identifier" -> <<node.name>>
      [] node.kind = "BinaryOp" ->
            gen_expression(node.left) \o <<" ", binary_operator_map(node.operator), " ">>
                \o gen_expression(node.right)
      [] node.kind = "UnaryOp" ->
            <<"(", unary_operator_map(node.operator), " ">>
                \o gen_expression(node.operand) \o <<")">>
      [] OTHER -> <<>>

\* CodeGenerator.visit_expression and the visit_* it dispatches to.
gen_expression(node) ==
    CASE node.kind = "Number" -> <<str(node.value)>>
      [] node.kind = "Boolean" -> IF node.value THEN <<"True">> ELSE <<"False">>
      [] node.kind = "Identifier" -> <<node.name>>
      [] node.kind = "BinaryOp" ->
            <<"(">> \o gen_expression(node.left)
                \o <<" ", binary_operator_map(node.operator), " ">>
                \o gen_expression(node.right) \o <<")">>
      [] node.kind = "UnaryOp" ->
            <<"(", unary_operator_map(node.operator), " ">>
                \o gen_expression(node.operand) \o <<")">>
      [] node.kind = "ArrayLiteral" ->
            <<"[">> \o join(<<",", " ">>, gen_expressions(node.elements)) \o <<"]">>
      [] node.kind = "ArrayAccess" ->
            gen_expression(node.array) \o <<"[">> \o gen_expression(node.index) \o <<"]">>
      [] node.kind = "FunctionCall" ->
            <<node.name, "(">> \o join(<<",", " ">>, gen_expressions(node.arguments))
                \o <<")">>
      [] OTHER -> <<>>

RECURSIVE gen_statement(_, _)
RECURSIVE gen_statements(_, _)

\* `for stmt in stmts: self.visit_statement(stmt)`
gen_statements(stmts, g) ==
    IF stmts = <<>> THEN g
    ELSE gen_statements(Tail(stmts), gen_statement(Head(stmts), g))

\* self.indent_level += 1
indented(g) ==
    [g EXCEPT !.indent_level = @ + 1, !.levels = Append(@, g.indent_level + 1)]

\* A block end that leaves self.indent_level as it is.
dedented_never(g) == [g EXCEPT !.levels = Append(@, g.indent_level)]

\* self.indent_level -= 1
dedented(g) ==
    [g EXCEPT !.indent_level = @ - 1, !.levels = Append(@, g.indent_level - 1)]

gen_declaration(node, g) ==
    emit(g, <<node.name, ":", " ", get_python_type(node.var_type), " ", "=", " ">>
            \o gen_expression(node.value))

gen_assignment(node, g) ==
    emit(g, <<node.name, " ", "=", " ">> \o gen_expression(node.value))

gen_print_statement(node, g) ==
    emit(g, <<"print", "(">> \o gen_expression(node.expression) \o <<")">>)

gen_if_statement(node, g) ==
    LET g1 == emit(g, <<"if", " ">> \o gen_expression(node.condition) \o <<":">>)
        g2 == dedented(gen_statements(node.then_block, indented(g1)))
    IN  IF node.else_block # None /\ node.else_block.items # <<>>
        THEN dedented(gen_statements(node.else_block.items,
                                     indented(emit(g2, <<"else", ":">>))))
        ELSE g2

gen_while_statement(node, g) ==
    LET g1 == emit(g, <<"while", " ">> \o gen_expression(node.condition) \o <<":">>)
    IN  dedented(gen_statements(node.body, indented(g1)))

\* visit_for_statement with the update emitted ahead of the body.
gen_for_statement_update_first(node, g) ==
    LET g1 == IF node.init # None THEN gen_statement(node.init, g) ELSE g
        condition_code == IF node.condition # None THEN gen_expression(node.condition)
                          ELSE <<"True">>
        g2 == indented(emit(g1, <<"while", " ">> \o condition_code \o <<":">>))
        g3 == IF node.update # None THEN gen_statement(node.update, g2) ELSE g2
    IN  dedented(gen_statements(node.body, g3))

gen_for_statement(node, g) ==
    LET g1 == IF node.init # None THEN gen_statement(node.init, g) ELSE g
        condition_code == IF node.condition # None THEN gen_expression(node.condition)
                          ELSE <<"True">>
        g2 == indented(emit(g1, <<"while", " ">> \o condition_code \o <<":">>))
        g3 == gen_statements(node.body, g2)
        g4 == IF node.update # None THEN gen_statement(node.update, g3) ELSE g3
    IN  dedented(g4)

\* [f"{name}: {self.get_python_type(ptype)}" for ptype, name in node.params]
RECURSIVE params_strs(_)
params_strs(params) ==
    IF params = <<>> THEN <<>>
    ELSE <<<<Head(params)[2], ":", " ", get_python_type(Head(params)[1])>>>>
         \o params_strs(Tail(params))

gen_function_declaration(node, g) ==
    LET params_str == join(<<",", " ">>, params_strs(node.params))
        return_type_annotation ==
            IF node.return_type # ""
            THEN <<" ", "->", " ", get_python_type(node.return_type)>> ELSE <<>>
        g1 == indented(emit(g, <<"def", " ", node.name, "(">> \o params_str \o <<")">>
                               \o return_type_annotation \o <<":">>))
        g2 == IF node.body # <<>> THEN gen_statements(node.body, g1)
              ELSE emit(g1, <<"pass">>)
    IN  emit(dedented(g2), <<>>)

gen_return_statement(node, g) ==
    IF node.expression # None
    THEN emit(g, <<"return", " ">> \o gen_expression(node.expression))
    ELSE emit(g, <<"return">>)

\* CodeGenerator.visit_statement
gen_statement(node, g) ==
    CASE node.kind = "Declaration" -> gen_declaration(node, g)
      [] node.kind = "Assignment" -> gen_assignment(node, g)
      [] node.kind = "PrintStatement" -> gen_print_statement(node, g)
      [] node.kind = "IfStatement" -> gen_if_statement(node, g)
      [] node.kind = "WhileStatement" -> gen_while_statement(node, g)
      [] node.kind = "ForStatement" -> gen_for_statement(node, g)
      [] node.kind = "FunctionDeclaration" -> gen_function_declaration(node, g)
      [] node.kind = "ReturnStatement" -> gen_return_statement(node, g)
      [] OTHER -> g

\* generate up to its return: the CodeGenerator after visit_program.
generate_run(program, g) ==
    gen_statements(program.statements, [g EXCEPT !.output = <<>>])

generate(program) == join(<<"\n">>, generate_run(program, CodeGenerator).output)

(***************************************************************************)
(* The driver compile_source (simplelang.py) as a state machine.  The      *)
(* analyzer runs one visit_statement call of a statement loop per step;    *)
(* frames is the stack of the running visit_program, visit_if_statement,   *)
(* visit_while_statement, visit_for_statement and                          *)
(* visit_function_declaration calls, each with the statements its loop has *)
(* still to visit.                                                         *)
(***************************************************************************)
CompilerError(cause) == [kind |-> "CompilerError", cause |-> cause]

Returned(text) == [kind |-> "str", text |-> text]

\* An except clause that does not name SemanticError.
CaughtWithoutSemanticError == {"LexerError", "ParserError"}

\* The exceptions compile_source catches.
Caught == {"LexerError", "ParserError", "SemanticError"}

\* A running call: the node visited, the rest of its statement loop, the
\* local saved_symbols (function declarations only) and, as history, the
\* symbol table when the call began.
Frame(node, rest, saved_symbols, at_call) ==
    [node |-> node, rest |-> rest, saved_symbols |-> saved_symbols, at_call |-> at_call]

Tokenize ==
    /\ pc = "start"
    /\ calls' = Append(calls, "tokenize")
    /\ LET r == tokenize(Lexer(source)) IN
       IF r.err # None
       THEN pc' = "except" /\ exception' = r.err /\ UNCHANGED tokens
       ELSE pc' = "parse" /\ tokens' = r.lexer.tokens /\ UNCHANGED exception
    /\ UNCHANGED <<source, ast, symbols, frames, python_code, outcome, visited>>

Parse ==
    /\ pc = "parse"
    /\ calls' = Append(calls, "parse")
    /\ LET r == parse(tokens) IN
       IF r.err # None
       THEN pc' = "except" /\ exception' = r.err /\ UNCHANGED ast
       ELSE pc' = "analyze" /\ ast' = r.node /\ UNCHANGED exception
    /\ UNCHANGED <<source, tokens, symbols, frames, python_code, outcome, visited>>

\* analyzer = SemanticAnalyzer(); analyzer.analyze(ast) enters visit_program.
Analyze ==
    /\ pc = "analyze"
    /\ calls' = Append(calls, "analyze")
    /\ pc' = "visit"
    /\ symbols' = EmptySymbols
    /\ frames' = <<Frame(ast, ast.statements, EmptySymbols, EmptySymbols)>>
    /\ UNCHANGED <<source, tokens, ast, python_code, exception, outcome, visited>>

\* The statement the innermost loop visits next.
Visiting(kind) ==
    /\ pc = "visit"
    /\ frames # <<>>
    /\ frames[1].rest # <<>>
    /\ Head(frames[1].rest).kind = kind

Current == Head(frames[1].rest)

Position(node) == <<node.line, node.column>>

\* The frames with the innermost loop moved past the current statement.
Continue == [frames EXCEPT ![1].rest = Tail(@)]

\* An exception leaves every running call.
Raise(err) ==
    /\ pc' = "except"
    /\ exception' = err
    /\ frames' = <<>>

\* The end of a visit_* call that has no statement loop: r is [symbols, err].
Simple(r) ==
    /\ visited' = Append(visited, Position(Current))
    /\ IF r.err # None
       THEN Raise(r.err) /\ UNCHANGED symbols
       ELSE /\ symbols' = r.symbols
            /\ frames' = Continue
            /\ UNCHANGED <<pc, exception>>
    /\ UNCHANGED <<source, tokens, ast, python_code, outcome, calls>>

\* The start of the statement loop of a visit_* call whose checks before the
\* loop gave r = [symbols, err]; saved is its saved_symbols.
Enter(r, block, saved) ==
    /\ visited' = Append(visited, Position(Current))
    /\ IF r.err # None
       THEN Raise(r.err) /\ UNCHANGED symbols
       ELSE /\ symbols' = r.symbols
            /\ frames' = <<Frame(Current, block, saved, symbols)>> \o Continue
            /\ UNCHANGED <<pc, exception>>
    /\ UNCHANGED <<source, tokens, ast, python_code, outcome, calls>>

VisitDeclaration ==
    /\ Visiting("Declaration")
    /\ Simple(visit_declaration(Current, symbols))

VisitAssignment ==
    /\ Visiting("Assignment")
    /\ Simple(visit_assignment(Current, symbols))

VisitPrintStatement ==
    /\ Visiting("PrintStatement")
    /\ Simple(visit_print_statement(Current, symbols))

VisitReturnStatement ==
    /\ Visiting("ReturnStatement")
    /\ Simple(visit_return_statement(Current, symbols))

\* The statements of the two loops of visit_if_statement, in order.
if_blocks(node) ==
    node.then_block \o (IF node.else_block # None THEN node.else_block.items ELSE <<>>)

VisitIfStatement ==
    /\ Visiting("IfStatement")
    /\ Enter([symbols |-> symbols, err |-> check_condition(Current, symbols, "If")],
             if_blocks(Current), EmptySymbols)

VisitWhileStatement ==
    /\ Visiting("WhileStatement")
    /\ Enter([symbols |-> symbols, err |-> check_condition(Current, symbols, "While")],
             Current.body, EmptySymbols)

VisitForStatement ==
    /\ Visiting("ForStatement")
    /\ Enter(visit_for_header(Current, symbols), Current.body, EmptySymbols)

VisitFunctionDeclaration ==
    /\ Visiting("FunctionDeclaration")
    /\ LET r == enter_function(Current, symbols) IN
       Enter(r, Current.body, r.saved_symbols)

\* A visit_function_declaration that does not restore the table.
restored_never(frame, syms) == syms

\* Every statement with a block restoring the table it was called with.
restored_block_scoped(frame, syms) ==
    IF frame.node.kind = "FunctionDeclaration" THEN frame.saved_symbols ELSE frame.at_call

\* The statement loop of the innermost call is over and the call returns;
\* visit_function_declaration restores the table first.
restored(frame, syms) ==
    IF frame.node.kind = "FunctionDeclaration" THEN frame.saved_symbols ELSE syms

EndVisit ==
    /\ pc = "visit"
    /\ Len(frames) > 1
    /\ frames[1].rest = <<>>
    /\ symbols' = restored(frames[1], symbols)
    /\ frames' = Tail(frames)
    /\ UNCHANGED <<pc, source, tokens, ast, python_code, exception, outcome,
                   calls, visited>>

\* visit_program returns: analyze is over.
EndAnalyze ==
    /\ pc = "visit"
    /\ Len(frames) = 1
    /\ frames[1].rest = <<>>
    /\ pc' = "generate"
    /\ frames' = <<>>
    /\ UNCHANGED <<source, tokens, ast, symbols, python_code, exception, outcome,
                   calls, visited>>

Generate ==
    /\ pc = "generate"
    /\ calls' = Append(calls, "generate")
    /\ python_code' = generate(ast)
    /\ pc' = "return"
    /\ UNCHANGED <<source, tokens, ast, symbols, frames, exception, outcome, visited>>

Return ==
    /\ pc = "return"
    /\ outcome' = Returned(python_code)
    /\ pc' = "done"
    /\ UNCHANGED <<source, tokens, ast, symbols, frames, python_code, exception,
                   calls, visited>>

\* except (LexerError, ParserError, SemanticError) as e: raise CompilerError(...)
\* from e; any other exception leaves compile_source as it is.
Except ==
    /\ pc = "except"
    /\ outcome' = IF exception.kind \in Caught THEN CompilerError(exception)
                  ELSE exception
    /\ pc' = "done"
    /\ UNCHANGED <<source, tokens, ast, symbols, frames, python_code, exception,
                   calls, visited>>

(***************************************************************************)
(* The source texts compile_source is run on.  A text is written as a      *)
(* sequence of lexemes and spelled out character by character; a line      *)
(* break follows every ';', '{' and '}' and a space every other lexeme.    *)
(***************************************************************************)
MaxStatements == 2
MaxBody == 2

Spelling(lexeme) ==
    CASE lexeme = "int" -> <<"i", "n", "t">>
      [] lexeme = "bool" -> <<"b", "o", "o", "l">>
      [] lexeme = "print" -> <<"p", "r", "i", "n", "t">>
      [] lexeme = "if" -> <<"i", "f">>
      [] lexeme = "else" -> <<"e", "l", "s", "e">>
      [] lexeme = "while" -> <<"w", "h", "i", "l", "e">>
      [] lexeme = "for" -> <<"f", "o", "r">>
      [] lexeme = "function" -> <<"f", "u", "n", "c", "t", "i", "o", "n">>
      [] lexeme = "return" -> <<"r", "e", "t", "u", "r", "n">>
      [] lexeme = "true" -> <<"t", "r", "u", "e">>
      [] lexeme = "false" -> <<"f", "a", "l", "s", "e">>
      [] lexeme = "==" -> <<"=", "=">>
      [] lexeme = "!=" -> <<"!", "=">>
      [] lexeme = "<=" -> <<"<", "=">>
      [] lexeme = ">=" -> <<">", "=">>
      [] lexeme = "&&" -> <<"&", "&">>
      [] lexeme = "||" -> <<"|", "|">>
      [] lexeme = "10" -> <<"1", "0">>
      [] lexeme = "20" -> <<"2", "0">>
      [] lexeme = "result" -> <<"r", "e", "s", "u", "l", "t">>
      [] lexeme = "board" -> <<"b", "o", "a", "r", "d">>
      [] lexeme = "row" -> <<"r", "o", "w">>
      [] lexeme = "col" -> <<"c", "o", "l">>
      [] OTHER -> <<lexeme>>

RECURSIVE Text(_)
Text(lexemes) ==
    IF lexemes = <<>> THEN <<>>
    ELSE Spelling(Head(lexemes))
         \o (IF Head(lexemes) \in {";", "{", "}"} THEN <<"\n">> ELSE <<" ">>)
         \o Text(Tail(lexemes))

RECURSIVE Flatten(_)
Flatten(seqs) == IF seqs = <<>> THEN <<>> ELSE Head(seqs) \o Flatten(Tail(seqs))

\* The sequences of at most n elements of S.
SeqsUpTo(S, n) == UNION {[1..k -> S] : k \in 0..n}

\* Statements without a block, and a function with an empty body: well
\* formed ones, one the lexer rejects and one the parser rejects.
TopStatements ==
    { <<"int", "x", "=", "1", ";">>,
      <<"bool", "x", "=", "true", ";">>,
      <<"bool", "x", "=", "1", ";">>,
      <<"int", "y", "=", "x", ";">>,
      <<"int", "x", "=", "x", ";">>,
      <<"int", "x", "=", "x", "+", "y", ";">>,
      <<"print", "(", "y", ")", ";">>,
      <<"x", "=", "1", ";">>,
      <<"x", "[", "y", "]", "=", "1", ";">>,
      <<"function", "x", "(", ")", "{", "}">>,
      <<"int", "y", "=", "1", "&", "2", ";">>,
      <<"int", "y", "=", ";">> }

\* The statements blocks are filled with.
BodyStatements ==
    { <<"int", "x", "=", "1", ";">>,
      <<"bool", "y", "=", "true", ";">>,
      <<"int", "y", "=", "x", ";">>,
      <<"print", "(", "x", ")", ";">>,
      <<"return", "x", ";">> }

Wrappers == 1..12

\* A statement with a block, the block holding the lexemes body.
Wrap(w, body) ==
    CASE w = 1 -> <<"if", "(", "true", ")", "{">> \o body \o <<"}">>
      [] w = 2 -> <<"if", "(", "true", ")", "{", "int", "x", "=", "1", ";", "}",
                    "else", "{">> \o body \o <<"}">>
      [] w = 3 -> <<"while", "(", "true", ")", "{">> \o body \o <<"}">>
      [] w = 4 -> <<"for", "(", "int", "x", "=", "1", ";", "x", "<", "2", ";", ")", "{">>
                  \o body \o <<"}">>
      [] w = 5 -> <<"for", "(", ";", ";", ")", "{">> \o body \o <<"}">>
      [] w = 6 -> <<"function", "f", "(", "bool", "x", ")", "{">> \o body \o <<"}">>
      [] w = 7 -> <<"function", "f", "(", "int", "y", ",", "bool", "y", ")", "{">>
                  \o body \o <<"}">>
      [] w = 8 -> <<"function", "f", "(", "bool", "x", ")", "{",
                    "function", "g", "(", "int", "x", ")", "{">> \o body
                  \o <<"}", "bool", "y", "=", "x", ";", "}">>
      [] w = 9 -> <<"if", "(", "1", ")", "{">> \o body \o <<"}">>
      [] w = 10 -> <<"while", "(", "1", ")", "{">> \o body \o <<"}">>
      [] w = 11 -> <<"for", "(", ";", "1", ";", ")", "{">> \o body \o <<"}">>
      [] w = 12 -> <<"for", "(", ";", "x", ";", ")", "{">> \o body \o <<"}">>

Before ==
    { <<>>,
      <<"int", "x", "=", "1", ";">>,
      <<"for", "(", "int", "x", "=", "1", ";", ";", ")", "{", "}">> }

After ==
    { <<>>,
      <<"int", "x", "=", "1", ";">>,
      <<"bool", "x", "=", "true", ";">>,
      <<"int", "y", "=", "x", ";">>,
      <<"print", "(", "y", ")", ";">> }

FlatPrograms == {Flatten(p) : p \in SeqsUpTo(TopStatements, MaxStatements)}

BlockPrograms ==
    {b \o Wrap(w, Flatten(body)) \o a :
        b \in Before, w \in Wrappers, body \in SeqsUpTo(BodyStatements, MaxBody), a \in After}

\* test_variable_order of tests/semantic/test_analyzer.py
VariableOrderProgram ==
    <<"int", "result", "=", "x", "+", "y", ";", "int", "x", "=", "10", ";",
      "int", "y", "=", "20", ";">>

Sources == {Text(p) : p \in FlatPrograms \cup BlockPrograms \cup {VariableOrderProgram}}

Init ==
    /\ pc = "start"
    /\ source \in Sources
    /\ tokens = <<>>
    /\ ast = None
    /\ symbols = EmptySymbols
    /\ frames = <<>>
    /\ python_code = <<>>
    /\ exception = None
    /\ outcome = None
    /\ calls = <<>>
    /\ visited = <<>>

Next ==
    \/ Tokenize
    \/ Parse
    \/ Analyze
    \/ VisitDeclaration
    \/ VisitAssignment
    \/ VisitPrintStatement
    \/ VisitReturnStatement
    \/ VisitIfStatement
    \/ VisitWhileStatement
    \/ VisitForStatement
    \/ VisitFunctionDeclaration
    \/ EndVisit
    \/ EndAnalyze
    \/ Generate
    \/ Return
    \/ Except

Spec == Init /\ [][Next]_vars

(***************************************************************************)
(* Properties of the pipeline and of the analyzer, checked under Spec.      *)
(***************************************************************************)
Stages == <<"tokenize", "parse", "analyze", "generate">>

IsPrefix(s, t) == Len(s) <= Len(t) /\ \A i \in 1..Len(s) : s[i] = t[i]

\* The number of stages run when an exception of this kind leaves its stage.
StageOf(kind) ==
    CASE kind = "LexerError" -> 1
      [] kind = "ParserError" -> 2
      [] kind = "SemanticError" -> 3

\* C1: compile_source calls tokenize, parse, analyze and generate in that
\* order.  Once a stage has raised LexerError, ParserError or SemanticError,
\* the stages called are exactly those up to the raising one, no text has
\* been generated, and what the caller receives is one CompilerError that
\* wraps that error; text is returned only after all four stages have run
\* without an exception.
C1_StagesInOrder ==
    /\ IsPrefix(calls, Stages)
    /\ exception.kind \in {"LexerError", "ParserError", "SemanticError"} =>
          /\ calls = SubSeq(Stages, 1, StageOf(exception.kind))
          /\ python_code = <<>>
          /\ outcome # None => outcome.kind = "CompilerError" /\ outcome.cause = exception
          /\ pc = "done" => outcome # None
    /\ outcome.kind = "str" =>
          /\ calls = Stages
          /\ exception = None
          /\ outcome.text = python_code

\* The analyzer has raised a SemanticError and the caller holds its wrapping.
C1_SemanticErrorWrapped ==
    /\ pc = "done"
    /\ exception.kind = "SemanticError"
    /\ outcome.kind = "CompilerError"
    /\ calls = <<"tokenize", "parse", "analyze">>

\* The Declaration whose binding the current step would insert, were the name
\* free: the statement itself, or the init of a for statement.
DeclaringNodes ==
    IF Visiting("Declaration") THEN {Current}
    ELSE IF Visiting("ForStatement") /\ Current.init # None
            /\ Current.init.kind = "Declaration"
    THEN {Current.init}
    ELSE {}

AlreadyDeclared(node) ==
    SemanticError("Variable '" \o node.name \o "' already declared", node.line, node.column)

C5_Step ==
    /\ Visiting("FunctionDeclaration") /\ Current.name \in DOMAIN symbols =>
          /\ pc' = "except"
          /\ exception' = AlreadyDeclared(Current)
          /\ symbols' = symbols
    /\ \A d \in DeclaringNodes :
          /\ d.name \in DOMAIN symbols
          /\ visit_expression(d.value, symbols) = Typed(d.var_type)
          => /\ pc' = "except"
             /\ exception' = AlreadyDeclared(d)
             /\ symbols' = symbols

\* C5: a declaration that reaches SymbolTable.declare with a name already in
\* the table (a function declaration, or a variable declaration whose
\* initializer has the declared type) raises SemanticError "Variable '<name>'
\* already declared" at the declaration's position and leaves the table as it
\* was, whatever made the earlier binding (variable, function, parameter) and
\* wherever (top level, block, function body).
C5_Redeclaration == [][C5_Step]_vars

\* `function x() {} int x = 1;`: the earlier binding is a function.
C5_VariableAfterFunction ==
    /\ pc = "done"
    /\ exception.kind = "SemanticError"
    /\ exception.message = "Variable 'x' already declared"
    /\ Len(ast.statements) = 2
    /\ ast.statements[1].kind = "FunctionDeclaration"
    /\ ast.statements[2].kind = "Declaration"

\* The statements of the loops a visit_* call runs, in order.
Blocks(node) ==
    CASE node.kind = "IfStatement" ->
            node.then_block
            \o (IF node.else_block # None THEN node.else_block.items ELSE <<>>)
      [] node.kind \in {"WhileStatement", "ForStatement", "FunctionDeclaration"} -> node.body
      [] OTHER -> <<>>

\* The statements in the order of a depth-first, left-to-right traversal.
RECURSIVE PreOrder(_)
PreOrder(statements) ==
    IF statements = <<>> THEN <<>>
    ELSE <<Head(statements)>> \o PreOrder(Blocks(Head(statements)))
         \o PreOrder(Tail(statements))

RECURSIVE Positions(_)
Positions(nodes) ==
    IF nodes = <<>> THEN <<>>
    ELSE <<Position(Head(nodes))>> \o Positions(Tail(nodes))

\* The violations in an expression in the order of a depth-first,
\* left-to-right traversal; an operator's own rule comes after its operands
\* and applies when they have types.
RECURSIVE Violations(_, _)
RECURSIVE ViolationsOfAll(_, _)
ViolationsOfAll(exprs, syms) ==
    IF exprs = <<>> THEN <<>>
    ELSE Violations(Head(exprs), syms) \o ViolationsOfAll(Tail(exprs), syms)

OwnViolation(rule) == IF rule.err # None THEN <<rule.err>> ELSE <<>>

Violations(node, syms) ==
    CASE node.kind = "Identifier" ->
            IF node.name \in DOMAIN syms THEN <<>>
            ELSE <<SemanticError("Undefined variable '" \o node.name \o "'",
                                 node.line, node.column)>>
      [] node.kind = "BinaryOp" ->
            IF ViolationsOfAll(<<node.left, node.right>>, syms) # <<>>
            THEN ViolationsOfAll(<<node.left, node.right>>, syms)
            ELSE OwnViolation(binary_rule(node, visit_expression(node.left, syms).type,
                                          visit_expression(node.right, syms).type))
      [] node.kind = "UnaryOp" ->
            IF Violations(node.operand, syms) # <<>>
            THEN Violations(node.operand, syms)
            ELSE OwnViolation(unary_rule(node, visit_expression(node.operand, syms).type))
      [] node.kind = "ArrayLiteral" -> ViolationsOfAll(node.elements, syms)
      [] node.kind = "ArrayAccess" -> ViolationsOfAll(<<node.array, node.index>>, syms)
      [] node.kind = "FunctionCall" -> ViolationsOfAll(node.arguments, syms)
      [] OTHER -> <<>>

\* The expression a statement checks first, if it has one.
FirstExpression(node) ==
    CASE node.kind = "Declaration" -> <<node.value>>
      [] node.kind = "PrintStatement" -> <<node.expression>>
      [] node.kind = "ReturnStatement" ->
            IF node.expression # None THEN <<node.expression>> ELSE <<>>
      [] node.kind \in {"IfStatement", "WhileStatement"} -> <<node.condition>>
      [] OTHER -> <<>>

\* The statement whose visit raised the exception: the last one visited.
Failing == PreOrder(ast.statements)[Len(visited)]

\* C6: the statements are visited in the order of a depth-first,
\* left-to-right traversal of the program; a SemanticError ends the traversal
\* (no statement after the failing one is visited) and is the first violation
\* of the failing statement in that order, an operator's left operand coming
\* before its right operand and both before the operator's own rule.  On
\* `int result = x + y; int x = 10; int y = 20;` the error is
\* Undefined variable 'x' and only the first statement is visited.
C6_FirstViolation ==
    /\ ast # None => IsPrefix(visited, Positions(PreOrder(ast.statements)))
    /\ exception.kind = "SemanticError" =>
          /\ frames = <<>>
          /\ visited # <<>>
          /\ ViolationsOfAll(FirstExpression(Failing), symbols) # <<>> =>
                exception = Head(ViolationsOfAll(FirstExpression(Failing), symbols))
    /\ source = Text(VariableOrderProgram) /\ pc = "done" =>
          /\ exception.kind = "SemanticError"
          /\ exception.message = "Undefined variable 'x'"
          /\ visited = <<<<1, 1>>>>

\* test_variable_order has run to its end.
C6_VariableOrder ==
    /\ pc = "done"
    /\ source = Text(VariableOrderProgram)
    /\ exception.message = "Undefined variable 'x'"
    /\ Len(ast.statements) = 3

\* The innermost running call is a visit_function_declaration whose body
\* loop is over.
FunctionReturns ==
    /\ pc = "visit"
    /\ Len(frames) > 1
    /\ frames[1].rest = <<>>
    /\ frames[1].node.kind = "FunctionDeclaration"

C7_Step ==
    FunctionReturns =>
        /\ frames[1].node.name \notin DOMAIN frames[1].at_call
        /\ DOMAIN symbols' = DOMAIN frames[1].at_call \cup {frames[1].node.name}
        /\ symbols'[frames[1].node.name] = "int"
        /\ \A n \in DOMAIN frames[1].at_call : symbols'[n] = frames[1].at_call[n]

\* C7: when visit_function_declaration returns, the table is the table the
\* call began with plus the one binding function name -> 'int': parameters
\* and body declarations are gone and shadowed globals have their types back.
C7_FunctionRestores == [][C7_Step]_vars

\* `int x = 1; function f(bool x) { <a declaration> ... }` has returned: the
\* parameter shadowed the global x and the body declared a name.
C7_ShadowingFunctionReturned ==
    /\ pc = "visit"
    /\ Len(frames) = 1
    /\ Len(ast.statements) >= 2
    /\ ast.statements[2].kind = "FunctionDeclaration"
    /\ ast.statements[2].params = <<<<"bool", "x">>>>
    /\ ast.statements[2].body # <<>>
    /\ ast.statements[2].body[1].kind = "Declaration"
    /\ Len(frames[1].rest) = Len(ast.statements) - 2
    /\ DOMAIN symbols = {"x", "f"}
    /\ symbols["x"] = "int"

\* The function declarations whose bodies are being checked, innermost first.
OpenFunctions == SelectSeq(frames, LAMBDA frame : frame.node.kind = "FunctionDeclaration")

\* C8: while a function body is checked, every parameter of the function is
\* in the table under its declared type.
C8_ParametersKeepDeclaredType ==
    pc = "visit" /\ OpenFunctions # <<>> =>
        \A k \in 1..Len(OpenFunctions[1].node.params) :
            LET param == OpenFunctions[1].node.params[k] IN
            /\ param[2] \in DOMAIN symbols
            /\ symbols[param[2]] = param[1]

\* A block statement's loop is over and the statement returns.
BlockReturns ==
    /\ pc = "visit"
    /\ Len(frames) > 1
    /\ frames[1].rest = <<>>
    /\ frames[1].node.kind \in {"IfStatement", "WhileStatement", "ForStatement"}

C9_Step ==
    /\ BlockReturns => symbols' = symbols
    /\ pc = "visit" /\ ~FunctionReturns /\ ~Visiting("FunctionDeclaration") =>
          \A n \in DOMAIN symbols : n \in DOMAIN symbols' /\ symbols'[n] = symbols[n]
    /\ \A d \in DeclaringNodes :
          pc' = "visit" => d.name \in DOMAIN symbols' /\ symbols'[d.name] = d.var_type

\* C9: if, else, while and for blocks open no scope: the return of such a
\* statement leaves the table as its block left it, a binding is removed or
\* changed only by the entry into and the return of a function declaration,
\* and a declaration that succeeds (a for-init included) binds its name in
\* that one table, so that a later declaration of the name is a redeclaration.
C9_BlocksOpenNoScope == [][C9_Step]_vars

\* `if (true) { int x = 1; } int x = 1;` fails on the second declaration.
C9_RedeclarationAfterBlock ==
    /\ pc = "done"
    /\ exception.kind = "SemanticError"
    /\ exception.message = "Variable 'x' already declared"
    /\ Len(ast.statements) = 2
    /\ ast.statements[1].kind \in {"IfStatement", "WhileStatement", "ForStatement"}
    /\ ast.statements[2].kind = "Declaration"
    /\ visited = Positions(PreOrder(ast.statements))

TypeMismatch(found, node) ==
    SemanticError("Type mismatch: cannot assign " \o found \o " to " \o node.var_type,
                  node.line, node.column)

Bound(node, syms) ==
    [n \in DOMAIN syms \cup {node.name} |-> IF n = node.name THEN node.var_type ELSE syms[n]]

C10_Step ==
    Visiting("Declaration") =>
        LET initializer == visit_expression(Current.value, symbols) IN
        /\ initializer.err # None =>
              exception' = initializer.err /\ symbols' = symbols
        /\ initializer.err = None /\ initializer.type # Current.var_type =>
              exception' = TypeMismatch(initializer.type, Current) /\ symbols' = symbols
        /\ initializer = Typed(Current.var_type) /\ Current.name \notin DOMAIN symbols =>
              symbols' = Bound(Current, symbols) /\ pc' = "visit"
        /\ symbols' # symbols =>
              /\ initializer = Typed(Current.var_type)
              /\ symbols' = Bound(Current, symbols)
        /\ Current.value.kind = "Identifier" /\ Current.value.name = Current.name
           /\ Current.name \notin DOMAIN symbols =>
              exception'.message = "Undefined variable '" \o Current.name \o "'"

\* C10: visit_declaration checks the initializer in the table as it is before
\* the declaration: an error of the initializer is the error raised (`int x =
\* x;` with no earlier x raises Undefined variable 'x'), a type mismatch is
\* raised whether or not the name is already declared, and the table changes
\* only by the binding name -> declared type, only when the initializer has
\* exactly the declared type.
C10_InitializerBeforeBinding == [][C10_Step]_vars

\* `int x = 1; bool x = 1;`: both a type mismatch and a redeclaration apply.
C10_MismatchBeforeRedeclaration ==
    /\ pc = "done"
    /\ exception.kind = "SemanticError"
    /\ exception.message = "Type mismatch: cannot assign int to bool"
    /\ Len(ast.statements) = 2
    /\ ast.statements[1].kind = "Declaration"
    /\ ast.statements[2].kind = "Declaration"
    /\ ast.statements[1].name = ast.statements[2].name

\* The index in tokens of the token a statement begins with.
TokenAt(node) ==
    CHOOSE i \in 1..Len(tokens) :
        tokens[i].line = node.line /\ tokens[i].column = node.column

\* The Assignment was written `name [ ... ] = ...`.
Indexed(node) == tokens[TokenAt(node) + 1].type = "LBRACKET"

\* The name the assignment was written with.
Target(node) == tokens[TokenAt(node)].value

Undefined(name, node) ==
    SemanticError("Undefined variable '" \o name \o "'", node.line, node.column)

C11_Step ==
    Visiting("Assignment") /\ ~Indexed(Current) =>
        LET value == visit_expression(Current.value, symbols) IN
        /\ symbols' = symbols
        /\ Target(Current) \notin DOMAIN symbols =>
              pc' = "except" /\ exception' = Undefined(Target(Current), Current)
        /\ Target(Current) \in DOMAIN symbols /\ value.err = None
           /\ value.type # symbols[Target(Current)] =>
              /\ pc' = "except"
              /\ exception' = SemanticError("Type mismatch: cannot assign " \o value.type
                                            \o " to " \o symbols[Target(Current)],
                                            Current.line, Current.column)
        /\ Target(Current) \in DOMAIN symbols /\ value.err = None
           /\ value.type = symbols[Target(Current)] =>
              pc' = "visit"

\* C11: a plain assignment `x = e;` raises SemanticError Undefined variable
\* 'x' when x is not in the table, raises a type mismatch when e has a type
\* other than the type x was declared with, passes when the types agree, and
\* leaves the table unchanged in every case.
C11_PlainAssignment == [][C11_Step]_vars

IntCondition(node) == visit_expression(node.condition, symbols) = Typed("int")

C12_Step ==
    /\ Visiting("IfStatement") /\ IntCondition(Current) =>
          /\ pc' = "except"
          /\ exception' = SemanticError("If condition must be bool, got int",
                                        Current.line, Current.column)
    /\ Visiting("WhileStatement") /\ IntCondition(Current) =>
          /\ pc' = "except"
          /\ exception' = SemanticError("While condition must be bool, got int",
                                        Current.line, Current.column)
    /\ Visiting("ForStatement") /\ Current.init = None /\ Current.update = None
       /\ Current.condition # None =>
          LET condition == visit_expression(Current.condition, symbols) IN
          /\ condition.err = None =>
                /\ pc' = "visit"
                /\ frames'[1].node = Current
                /\ symbols' = symbols
          /\ condition.err # None => pc' = "except" /\ exception' = condition.err

\* C12: visit_if_statement and visit_while_statement raise SemanticError "If
\* (While) condition must be bool, got int" on a condition of type int;
\* visit_for_statement only visits its condition: an error inside the
\* condition is raised, a condition of type int is accepted and the body loop
\* starts.
C12_ConditionTypes == [][C12_Step]_vars

\* `for (;1;) { ... }` alone has passed the analysis and text was returned.
C12_ForIntConditionPasses ==
    /\ pc = "done"
    /\ outcome.kind = "str"
    /\ Len(ast.statements) = 1
    /\ ast.statements[1].kind = "ForStatement"
    /\ ast.statements[1].condition.kind = "Number"

C13_Step ==
    Visiting("Assignment") /\ Indexed(Current) =>
        LET index == parse_expression(tokens, TokenAt(Current) + 1).node
            checked == visit_expression(index, symbols)
            value == visit_expression(Current.value, symbols)
        IN
        /\ Target(Current) \notin DOMAIN symbols =>
              pc' = "except" /\ exception' = Undefined(Target(Current), Current)
        /\ Target(Current) \in DOMAIN symbols /\ checked.err # None =>
              pc' = "except" /\ exception' = checked.err
        /\ Target(Current) \in DOMAIN symbols /\ checked.err = None /\ value.err = None =>
              IF value.type = "int" THEN pc' = "visit"
              ELSE /\ pc' = "except"
                   /\ exception'.kind = "SemanticError"
                   /\ exception'.message = "Type mismatch: cannot assign " \o value.type
                                           \o " to array element (int)"

\* C13: for an indexed assignment `a[i] = v;` the analyzer raises Undefined
\* variable 'a' when a is not in the table, raises the error of the index
\* expression i if it has one and accepts any type for it, and then raises a
\* type mismatch exactly when v does not have type int.
C13_IndexedAssignment == [][C13_Step]_vars

(***************************************************************************)
(* parse_expression on expression texts: operands joined by binary         *)
(* operators, plain, with prefix operators or with one pair of             *)
(* parentheses.                                                            *)
(***************************************************************************)
MaxOperators == 2

ExprOperators == {"||", "&&", "==", "<", "+", "-", "*", "%"}

OperandNames == <<"a", "b", "c", "d", "e">>
OperandNumbers == <<"2", "3", "4", "5", "6">>

\* operand operator operand ... operand
Interleave(ops, operands) ==
    [i \in 1..(2 * Len(ops) + 1) |->
        IF i % 2 = 1 THEN operands[(i + 1) \div 2] ELSE ops[i \div 2]]

ExprForms == 1..6

ExprForm(form, ops) ==
    LET plain == Interleave(ops, OperandNames)
        n == Len(plain)
        group == IF n >= 3 THEN 3 ELSE 1
    IN
    CASE form = 1 -> plain
      [] form = 2 -> Interleave(ops, OperandNumbers)
      [] form = 3 -> <<"-">> \o plain
      [] form = 4 -> SubSeq(plain, 1, n - 1) \o <<"!", "!", plain[n]>>
      [] form = 5 -> <<"(">> \o SubSeq(plain, 1, group) \o <<")">>
                     \o SubSeq(plain, group + 1, n)
      [] form = 6 -> SubSeq(plain, 1, n - group) \o <<"(">>
                     \o SubSeq(plain, n - group + 1, n) \o <<")">>

ExprSources ==
    {Text(ExprForm(form, ops)) :
        form \in ExprForms, ops \in SeqsUpTo(ExprOperators, MaxOperators)}

ExprInit ==
    /\ pc = "expression"
    /\ source \in ExprSources
    /\ tokens = <<>>
    /\ ast = None
    /\ symbols = EmptySymbols
    /\ frames = <<>>
    /\ python_code = <<>>
    /\ exception = None
    /\ outcome = None
    /\ calls = <<>>
    /\ visited = <<>>

\* tokens = Lexer(source).tokenize()
TokenizeExpression ==
    /\ pc = "expression"
    /\ LET r == tokenize(Lexer(source)) IN
       IF r.err # None
       THEN pc' = "except" /\ exception' = r.err /\ UNCHANGED tokens
       ELSE pc' = "parse_expression" /\ tokens' = r.lexer.tokens /\ UNCHANGED exception
    /\ UNCHANGED <<source, ast, symbols, frames, python_code, outcome, calls, visited>>

\* Parser(tokens).parse_expression(); outcome keeps the cursor and the
\* exception with the node.
ParseExpression ==
    /\ pc = "parse_expression"
    /\ outcome' = parse_expression(tokens, 0)
    /\ ast' = outcome'.node
    /\ pc' = "parsed"
    /\ UNCHANGED <<source, tokens, symbols, frames, python_code, exception, calls, visited>>

ExprNext ==
    \/ TokenizeExpression
    \/ ParseExpression

ExprSpec == ExprInit /\ [][ExprNext]_vars

\* The ladder, from the loosest level to the tightest.
Level(operator) ==
    CASE operator = "||" -> 1
      [] operator = "&&" -> 2
      [] operator \in {"==", "!=", "<", "<=", ">", ">="} -> 3
      [] operator \in {"+", "-"} -> 4
      [] operator \in {"*", "/", "%"} -> 5

\* The node with every position set to 0.
RECURSIVE Strip(_)
Strip(node) ==
    CASE node.kind = "BinaryOp" ->
            BinaryOp(Strip(node.left), node.operator, Strip(node.right), 0, 0)
      [] node.kind = "UnaryOp" -> UnaryOp(node.operator, Strip(node.operand), 0, 0)
      [] node.kind = "Identifier" -> Identifier(node.name, 0, 0)
      [] node.kind = "Number" -> Number(node.value, 0, 0)
      [] OTHER -> node

RECURSIVE NodeCount(_)
NodeCount(node) ==
    CASE node.kind = "BinaryOp" -> 1 + NodeCount(node.left) + NodeCount(node.right)
      [] node.kind = "UnaryOp" -> 1 + NodeCount(node.operand)
      [] OTHER -> 1

\* The operators and operands of the tree as they are written from left to
\* right.
RECURSIVE InOrder(_)
InOrder(node) ==
    CASE node.kind = "BinaryOp" ->
            InOrder(node.left) \o <<node.operator>> \o InOrder(node.right)
      [] node.kind = "UnaryOp" -> <<node.operator>> \o InOrder(node.operand)
      [] node.kind = "Identifier" -> <<node.name>>
      [] node.kind = "Number" -> <<str(node.value)>>
      [] OTHER -> <<>>

\* The tokens of the text but the parentheses and EOF.
Written == SelectSeq(tokens, LAMBDA t : t.type \notin {"LPAREN", "RPAREN", "EOF"})

TokenText(t) == IF t.type = "NUMBER" THEN str(t.value) ELSE t.value

Leaf(t) == IF t.type = "NUMBER" THEN Number(t.value, 0, 0) ELSE Identifier(t.value, 0, 0)

Node(left, t, right) == BinaryOp(left, t.value, right, 0, 0)

Parenthesised == \E i \in 1..Len(tokens) : tokens[i].type = "LPAREN"

OperandTypes == {"IDENTIFIER", "NUMBER"}

\* operand (operator operand)*, nothing else.
IsChain ==
    /\ Len(tokens) % 2 = 0
    /\ \A i \in 1..(Len(tokens) - 1) :
          IF i % 2 = 1 THEN tokens[i].type \in OperandTypes
          ELSE tokens[i].type \notin OperandTypes \cup {"LPAREN", "RPAREN", "NOT"}

\* No binary operator has a looser one below it, and no prefix operator has
\* a binary one below it.
RECURSIVE TighterBelow(_)
TighterBelow(node) ==
    CASE node.kind = "BinaryOp" ->
            /\ node.left.kind = "BinaryOp" =>
                  Level(node.left.operator) >= Level(node.operator)
            /\ node.right.kind = "BinaryOp" =>
                  Level(node.right.operator) >= Level(node.operator)
            /\ TighterBelow(node.left)
            /\ TighterBelow(node.right)
      [] node.kind = "UnaryOp" ->
            node.operand.kind # "BinaryOp" /\ TighterBelow(node.operand)
      [] OTHER -> TRUE

\* C2: every expression text of the pool parses to its end, into a tree that
\* has one node per operator and operand written (parentheses add none) and
\* reads from left to right as the text does.  Without parentheses the
\* operator of a looser level is never below one of a tighter level and a
\* binary operator is never below a prefix operator, so that in `a op1 b op2
\* c` with operators of different levels the tighter one is the child:
\* `2 + 3 * 4` is BinaryOp(2, +, BinaryOp(3, *, 4)), `-a * b` is
\* BinaryOp(UnaryOp(-, a), *, b), `!!a` nests.  A parenthesised group is one
\* operand whatever the levels.
C2_Precedence ==
    pc = "parsed" =>
        /\ outcome.err = None
        /\ outcome.pos = Len(tokens) - 1
        /\ NodeCount(ast) = Len(Written)
        /\ InOrder(ast) = [i \in 1..Len(Written) |-> TokenText(Written[i])]
        /\ ~Parenthesised => TighterBelow(ast)
        /\ IsChain /\ Len(tokens) = 6 /\ Level(tokens[2].value) # Level(tokens[4].value) =>
              Strip(ast) =
                 IF Level(tokens[2].value) > Level(tokens[4].value)
                 THEN Node(Node(Leaf(tokens[1]), tokens[2], Leaf(tokens[3])),
                           tokens[4], Leaf(tokens[5]))
                 ELSE Node(Leaf(tokens[1]), tokens[2],
                           Node(Leaf(tokens[3]), tokens[4], Leaf(tokens[5])))
        /\ source = Text(<<"2", "+", "3", "*", "4">>) =>
              Strip(ast) = BinaryOp(Number(2, 0, 0), "+",
                                    BinaryOp(Number(3, 0, 0), "*", Number(4, 0, 0), 0, 0),
                                    0, 0)
        /\ source = Text(<<"-", "a", "*", "b">>) =>
              Strip(ast) = BinaryOp(UnaryOp("-", Identifier("a", 0, 0), 0, 0), "*",
                                    Identifier("b", 0, 0), 0, 0)
        /\ source = Text(<<"!", "!", "a">>) =>
              Strip(ast) = UnaryOp("!", UnaryOp("!", Identifier("a", 0, 0), 0, 0), 0, 0)
        /\ Len(tokens) = 8 /\ tokens[1].type = "LPAREN" /\ tokens[5].type = "RPAREN" =>
              Strip(ast) = Node(Node(Leaf(tokens[2]), tokens[3], Leaf(tokens[4])),
                                tokens[6], Leaf(tokens[7]))
        /\ Len(tokens) = 8 /\ tokens[3].type = "LPAREN" /\ tokens[7].type = "RPAREN" =>
              Strip(ast) = Node(Leaf(tokens[1]), tokens[2],
                                Node(Leaf(tokens[4]), tokens[5], Leaf(tokens[6])))

\* `2 + 3 * 4` is parsed: the '*' node is the right child of the '+' node.
C2_TwoPlusThreeTimesFour ==
    /\ pc = "parsed"
    /\ source = Text(<<"2", "+", "3", "*", "4">>)
    /\ ast.kind = "BinaryOp"
    /\ ast.operator = "+"
    /\ ast.right.kind = "BinaryOp"
    /\ ast.right.operator = "*"

\* The left fold of a chain: ((operand op operand) op operand) ...
RECURSIVE LeftFold(_, _)
LeftFold(left, i) ==
    IF i >= Len(tokens) THEN left
    ELSE LeftFold(Node(left, tokens[i], Leaf(tokens[i + 1])), i + 2)

SameLevelChain ==
    /\ IsChain
    /\ Len(tokens) >= 6
    /\ \A i \in 1..(Len(tokens) - 1) :
          i % 2 = 0 => Level(tokens[i].value) = Level(tokens[2].value)

\* No binary operator has one of its own level as its right operand.
RECURSIVE LeftDeep(_)
LeftDeep(node) ==
    CASE node.kind = "BinaryOp" ->
            /\ node.right.kind = "BinaryOp" =>
                  Level(node.right.operator) # Level(node.operator)
            /\ LeftDeep(node.left)
            /\ LeftDeep(node.right)
      [] node.kind = "UnaryOp" -> LeftDeep(node.operand)
      [] OTHER -> TRUE

\* C3: a chain of operators of one level parses, with no error, to the left
\* fold BinaryOp(BinaryOp(a, op, b), op', c) ..., at each of the five binary
\* levels, chained comparisons such as `a < b < c` included; without
\* parentheses no operator has an operator of its own level as right operand.
C3_LeftFold ==
    pc = "parsed" =>
        /\ SameLevelChain =>
              outcome.err = None /\ Strip(ast) = LeftFold(Leaf(tokens[1]), 2)
        /\ ~Parenthesised => LeftDeep(ast)

\* `a < b < c` is parsed: the first comparison is the left operand of the
\* second.
C3_ChainedComparison ==
    /\ pc = "parsed"
    /\ source = Text(<<"a", "<", "b", "<", "c">>)
    /\ outcome.err = None
    /\ ast.kind = "BinaryOp"
    /\ ast.operator = "<"
    /\ ast.left.kind = "BinaryOp"
    /\ ast.left.operator = "<"
    /\ ast.right.kind = "Identifier"

(***************************************************************************)
(* visit_expression on expressions over the literals 1 and true and the    *)
(* declared identifiers n (int) and flag (bool).                           *)
(***************************************************************************)
MaxDepth == 2

TypeEnv == [name \in {"n", "flag"} |-> IF name = "n" THEN "int" ELSE "bool"]

Leaves ==
    {Number(1, 1, 1), Boolean(TRUE, 1, 1), Identifier("n", 1, 1), Identifier("flag", 1, 1)}

\* The other operand of a binary operator: one of each type.
Siblings == {Number(1, 1, 1), Identifier("flag", 1, 1)}

BinaryOperators == {"+", "-", "*", "/", "%", "<", "<=", ">", ">=", "==", "!=", "&&", "||"}
UnaryOperators == {"!", "-"}
\* One operator of each row of the typing table, for the levels above the
\* first.
RowOperators == {"+", "<", "==", "&&"}
\* The operators also tried with the nested operand on the right.
RightNested == {"+", "=="}

\* The expressions one level above those of the set sub, the nested operand
\* on the left of the binary operators ops.
Above(sub, ops) ==
    {BinaryOp(e, op, s, 1, 1) : e \in sub, op \in ops, s \in Siblings}
    \cup {BinaryOp(s, op, e, 1, 1) : s \in Siblings, op \in RightNested, e \in sub}
    \cup {UnaryOp(op, e, 1, 1) : op \in UnaryOperators, e \in sub}
    \cup {ArrayLiteral(<<e>>, 1, 1) : e \in sub}
    \cup {ArrayLiteral(<<Boolean(TRUE, 1, 1), e>>, 1, 1) : e \in sub}
    \cup {ArrayAccess(Identifier("n", 1, 1), e, 1, 1) : e \in sub}
    \cup {ArrayAccess(e, Number(1, 1, 1), 1, 1) : e \in sub}
    \cup {FunctionCall("f", <<e>>, 1, 1) : e \in sub}
    \cup {FunctionCall("f", <<e, Boolean(TRUE, 1, 1)>>, 1, 1) : e \in sub}

\* The expressions of at most this depth: every binary operator over the
\* leaves, the row operators over the deeper operands.
RECURSIVE Expressions(_)
Expressions(depth) ==
    IF depth = 0 THEN Leaves
    ELSE LET sub == Expressions(depth - 1) IN
         sub \cup Above(sub, IF depth = 1 THEN BinaryOperators ELSE RowOperators)

TypeInit ==
    /\ pc = "expression_typing"
    /\ ast \in Expressions(MaxDepth)
    /\ symbols = TypeEnv
    /\ source = <<>>
    /\ tokens = <<>>
    /\ frames = <<>>
    /\ python_code = <<>>
    /\ exception = None
    /\ outcome = None
    /\ calls = <<>>
    /\ visited = <<>>

\* analyzer.visit_expression(ast), the symbol table holding TypeEnv; outcome
\* is the type returned or the exception raised.
VisitExpression ==
    /\ pc = "expression_typing"
    /\ outcome' = visit_expression(ast, symbols)
    /\ pc' = "typed"
    /\ UNCHANGED <<source, tokens, ast, symbols, frames, python_code, exception,
                   calls, visited>>

TypeNext == VisitExpression

TypeSpec == TypeInit /\ [][TypeNext]_vars

\* The typing table: the type of an expression over literals and declared
\* identifiers, or "error" where an operand requirement is violated in it.
RECURSIVE TableType(_, _)
RECURSIVE AnyError(_, _)
AnyError(exprs, syms) ==
    \E i \in 1..Len(exprs) : TableType(exprs[i], syms) = "error"

BinaryRow(operator, left, right) ==
    CASE operator \in {"+", "-", "*", "/", "%"} ->
            IF left = "int" /\ right = "int" THEN "int" ELSE "error"
      [] operator \in {"<", "<=", ">", ">="} ->
            IF left = "int" /\ right = "int" THEN "bool" ELSE "error"
      [] operator \in {"==", "!="} -> IF left = right THEN "bool" ELSE "error"
      [] operator \in {"&&", "||"} ->
            IF left = "bool" /\ right = "bool" THEN "bool" ELSE "error"

UnaryRow(operator, operand) ==
    CASE operator = "!" -> IF operand = "bool" THEN "bool" ELSE "error"
      [] operator = "-" -> IF operand = "int" THEN "int" ELSE "error"

TableType(node, syms) ==
    CASE node.kind = "Number" -> "int"
      [] node.kind = "Boolean" -> "bool"
      [] node.kind = "Identifier" -> syms[node.name]
      [] node.kind = "BinaryOp" ->
            IF AnyError(<<node.left, node.right>>, syms) THEN "error"
            ELSE BinaryRow(node.operator, TableType(node.left, syms),
                           TableType(node.right, syms))
      [] node.kind = "UnaryOp" ->
            IF AnyError(<<node.operand>>, syms) THEN "error"
            ELSE UnaryRow(node.operator, TableType(node.operand, syms))
      [] node.kind = "ArrayLiteral" ->
            IF AnyError(node.elements, syms) THEN "error" ELSE "int"
      [] node.kind = "ArrayAccess" ->
            IF AnyError(<<node.array, node.index>>, syms) THEN "error" ELSE "int"
      [] node.kind = "FunctionCall" ->
            IF AnyError(node.arguments, syms) THEN "error" ELSE "int"

\* C4: on every expression of the pool visit_expression returns the type the
\* typing table gives, and raises SemanticError exactly where the table has
\* no type because an operand requirement is violated in the expression;
\* array literals, array accesses and function calls with well-typed parts
\* are int whatever the types of elements, index and arguments, whatever the
\* number of arguments, and whether or not the callee is declared.
C4_TypingTable ==
    pc = "typed" =>
        IF TableType(ast, symbols) = "error"
        THEN outcome.err # None /\ outcome.err.kind = "SemanticError"
        ELSE outcome = Typed(TableType(ast, symbols))

\* An array access with a bool comparison for index has been typed int.
C4_BoolIndexTypedInt ==
    /\ pc = "typed"
    /\ ast.kind = "ArrayAccess"
    /\ ast.index.kind = "BinaryOp"
    /\ TableType(ast.index, symbols) = "bool"
    /\ outcome = Typed("int")

(***************************************************************************)
(* The code generator on parsed programs, as the helper generate_code of   *)
(* tests/codegen/test_generator.py runs it: lexer, parser, generator,      *)
(* without the analyzer.  tokens and ast are the helper's locals, outcome  *)
(* is the CodeGenerator object after generate and python_code the text     *)
(* generate returned.                                                      *)
(***************************************************************************)
MaxGenStatements == 2
MaxGenBody == 2
MaxOperand == 17

\* Statements without a block.
GenStatements ==
    { <<"int", "x", "=", "2", "+", "3", "*", "4", ";">>,
      <<"x", "=", "20", "-", "10", "-", "5", ";">>,
      <<"print", "(", "i", ")", ";">>,
      <<"board", "[", "row", "*", "n", "+", "col", "]", "=", "1", ";">>,
      <<"x", "[", "i", "]", "=", "x", "/", "2", ";">> }

\* The bodies of the wrapped programs: empty, one statement, an if statement.
GenBodies ==
    {<<>>} \cup GenStatements
    \cup {<<"if", "(", "i", "==", "0", ")", "{", "print", "(", "7", ")", ";", "}">>}

\* The bodies of the for programs.
ForBodies ==
    {Flatten(b) : b \in SeqsUpTo({<<"print", "(", "i", ")", ";">>,
                                  <<"x", "=", "i", "*", "2", ";">>}, MaxGenBody)}

\* The init, the condition and the update of the for statements.
ForInits == {<<>>, <<"int", "i", "=", "0">>, <<"i", "=", "0">>}
ForConditions == {<<>>, <<"i", "<", "2">>, <<"i", "<", "0">>}
ForUpdates == {<<>>, <<"i", "=", "i", "+", "1">>}

ForPrograms ==
    {<<"for", "(">> \o init \o <<";">> \o condition \o <<";">> \o update
        \o <<")", "{">> \o body \o <<"}">> :
        init \in ForInits, condition \in ForConditions, update \in ForUpdates,
        body \in ForBodies}

GenWrappers == 1..6

GenWrap(w, body) ==
    CASE w = 1 -> <<"if", "(", "i", "<", "1", ")", "{">> \o body \o <<"}">>
      [] w = 2 -> <<"if", "(", "true", ")", "{", "print", "(", "1", ")", ";", "}",
                    "else", "{">> \o body \o <<"}">>
      [] w = 3 -> <<"while", "(", "i", "<", "1", ")", "{">> \o body \o <<"}">>
      [] w = 4 -> <<"function", "f", "(", "int", "a", ",", "bool", "b", ")", "{">>
                  \o body \o <<"return", "a", ";", "}">>
      [] w = 5 -> <<"function", "f", "(", ")", "{", "while", "(", "true", ")", "{",
                    "for", "(", ";", ";", ")", "{">> \o body \o <<"}", "}", "}">>
      [] w = 6 -> <<"int", "i", "=", "0", ";", "while", "(", "i", "<", "2", ")", "{",
                    "i", "=", "i", "+", "1", ";">> \o body \o <<"}">>

GenPrograms ==
    {Flatten(p) : p \in SeqsUpTo(GenStatements, MaxGenStatements)}
    \cup {GenWrap(w, body) : w \in GenWrappers \ {5}, body \in GenBodies}
    \cup {GenWrap(5, body) : body \in {<<>>} \cup GenStatements}
    \cup ForPrograms
    \cup {<<"print", "(">> \o ExprForm(form, ops) \o <<")", ";">> :
            form \in ExprForms, ops \in SeqsUpTo(ExprOperators, MaxOperators)}

\* The characters of the decimal numeral of n.
RECURSIVE Numeral(_)
Numeral(n) ==
    IF n < 10 THEN <<DigitStr(n)>> ELSE Numeral(n \div 10) \o <<DigitStr(n % 10)>>

\* The integer k written in SimpleLang, which has no negative literal.
Operand(k) ==
    IF k >= 0 THEN Numeral(k)
    ELSE <<"(", "0", " ", "-", " ">> \o Numeral(0 - k) \o <<")">>

Operands == (0 - MaxOperand)..MaxOperand

\* print(a / b); and print(a % b);
ArithmeticTexts ==
    {<<"p", "r", "i", "n", "t", "(">> \o Operand(a) \o <<" ", op, " ">> \o Operand(b)
        \o <<")", ";">> : a \in Operands, b \in Operands, op \in {"/", "%"}}

GenSources == {Text(p) : p \in GenPrograms} \cup ArithmeticTexts

GenInit ==
    /\ pc = "generate_code"
    /\ source \in GenSources
    /\ tokens = <<>>
    /\ ast = None
    /\ symbols = EmptySymbols
    /\ frames = <<>>
    /\ python_code = <<>>
    /\ exception = None
    /\ outcome = None
    /\ calls = <<>>
    /\ visited = <<>>

\* generate_code(source): tokens = Lexer(source).tokenize(); ast =
\* Parser(tokens).parse(); generator = CodeGenerator(); return
\* generator.generate(ast).  An exception of the lexer or of the parser leaves
\* the helper.
GenerateCode ==
    /\ pc = "generate_code"
    /\ LET lexed == tokenize(Lexer(source))
           parsed == parse(lexed.lexer.tokens)
       IN  IF lexed.err # None
           THEN /\ pc' = "raised"
                /\ exception' = lexed.err
                /\ UNCHANGED <<tokens, ast, outcome, python_code>>
           ELSE IF parsed.err # None
           THEN /\ pc' = "raised"
                /\ exception' = parsed.err
                /\ tokens' = lexed.lexer.tokens
                /\ UNCHANGED <<ast, outcome, python_code>>
           ELSE /\ pc' = "python"
                /\ tokens' = lexed.lexer.tokens
                /\ ast' = parsed.node
                /\ outcome' = generate_run(parsed.node, CodeGenerator)
                /\ python_code' = generate(parsed.node)
                /\ UNCHANGED exception
    /\ UNCHANGED <<source, symbols, frames, calls, visited>>


(***************************************************************************)
(* Python running the returned text, as far as the emitted programs need   *)
(* it: assignments to names, print, if, else and while, over int and bool  *)
(* values.  symbols holds the globals of the run, frames the line the      *)
(* interpreter is at, calls the arguments print was called with and        *)
(* visited the lines executed, in order.                                   *)
(***************************************************************************)
MaxSteps == 14
MaxLiteral == 20

\* text.split("\n"): the pieces between the line breaks, Breaks being the
\* positions of the line breaks and 0 and Len(text) + 1 around them.
Breaks(text) == {0, Len(text) + 1} \cup {i \in 1..Len(text) : text[i] = "\n"}

\* The k-th break, and the first break after the break b.
NthBreak(breaks, k) == CHOOSE b \in breaks : Cardinality({c \in breaks : c < b}) = k - 1

NextBreak(breaks, b) == CHOOSE c \in breaks : c > b /\ \A d \in breaks : d > b => c <= d

Slice(text, breaks, b) == SubSeq(text, b + 1, NextBreak(breaks, b) - 1)

SplitAt(text, breaks) ==
    [k \in 1..(Cardinality(breaks) - 1) |-> Slice(text, breaks, NthBreak(breaks, k))]

SplitLines(text) == SplitAt(text, Breaks(text))

\* The number of spaces a line begins with.
RECURSIVE Spaces(_)
Spaces(line) ==
    IF line = <<>> \/ Head(line) # " " THEN 0 ELSE 1 + Spaces(Tail(line))

\* The logical lines: blank lines are skipped.
PyLines(text) == SelectSeq(SplitLines(text), LAMBDA line : Spaces(line) < Len(line))

Depth(line) == Spaces(line) \div 4

Code(line) == SubSeq(line, Spaces(line) + 1, Len(line))

IsHeader(line) == line[Len(line)] = ":"

PyInt(n) == [type |-> "int", value |-> n]
PyBool(b) == [type |-> "bool", value |-> b]
PyFloat(a, b) == [type |-> "float", numerator |-> a, denominator |-> b]

\* bool is a subclass of int: True is 1 and False is 0.
int_of(v) == IF v.type = "bool" THEN (IF v.value THEN 1 ELSE 0) ELSE v.value

\* The truth value of an int or a bool.
truth(v) == IF v.type = "bool" THEN v.value ELSE v.value # 0

PyError(kind) == [kind |-> kind]

IsNumber(piece) == \E n \in 0..MaxLiteral : str(n) = piece

NumberValue(piece) == CHOOSE n \in 0..MaxLiteral : str(n) = piece

PyConstant(value) == [kind |-> "Constant", value |-> value]
PyName(id) == [kind |-> "Name", id |-> id]
PyUnaryOp(op, operand) == [kind |-> "UnaryOp", op |-> op, operand |-> operand]
PyBinOp(left, op, right) == [kind |-> "BinOp", left |-> left, op |-> op, right |-> right]

\* The closing parenthesis of a parenthesised expression.
py_close(text, node, pos) ==
    IF pos <= Len(text) /\ text[pos] = ")" THEN Ok(node, pos + 1)
    ELSE Fail(PyError("SyntaxError"), pos)

\* The expression that begins at text[pos], for texts in which every operator
\* stands between parentheses: `(op operand)` and `(left op right)`.
RECURSIVE py_parse(_, _)
py_parse(text, pos) ==
    IF pos > Len(text) THEN Fail(PyError("SyntaxError"), pos)
    ELSE IF text[pos] = "("
    THEN IF pos + 2 <= Len(text) /\ text[pos + 1] \in {"not", "-"}
         THEN Then(py_parse(text, pos + 3), LAMBDA operand:
              py_close(text, PyUnaryOp(text[pos + 1], operand.node), operand.pos))
         ELSE Then(py_parse(text, pos + 1), LAMBDA left:
              IF left.pos + 2 > Len(text) \/ text[left.pos] # " "
                 \/ text[left.pos + 2] # " "
              THEN Fail(PyError("SyntaxError"), left.pos)
              ELSE Then(py_parse(text, left.pos + 3), LAMBDA right:
                   py_close(text, PyBinOp(left.node, text[left.pos + 1], right.node),
                            right.pos)))
    ELSE IF text[pos] \in {"True", "False"}
    THEN Ok(PyConstant(PyBool(text[pos] = "True")), pos + 1)
    ELSE IF IsNumber(text[pos]) THEN Ok(PyConstant(PyInt(NumberValue(text[pos]))), pos + 1)
    ELSE IF text[pos] \in {")", " ", ":"} THEN Fail(PyError("SyntaxError"), pos)
    ELSE Ok(PyName(text[pos]), pos + 1)

\* The expression a text is, the whole text being one expression.
py_expression(text) ==
    Then(py_parse(text, 1), LAMBDA e:
    IF e.pos = Len(text) + 1 THEN e ELSE Fail(PyError("SyntaxError"), e.pos))

\* floor(a / b) for b # 0
floordiv(a, b) == IF b > 0 THEN a \div b ELSE (0 - a) \div (0 - b)

py_operator(op, a, b) ==
    CASE op = "+" -> Ok(PyInt(a + b), 0)
      [] op = "-" -> Ok(PyInt(a - b), 0)
      [] op = "*" -> Ok(PyInt(a * b), 0)
      [] op = "//" -> IF b = 0 THEN Fail(PyError("ZeroDivisionError"), 0)
                      ELSE Ok(PyInt(floordiv(a, b)), 0)
      [] op = "%" -> IF b = 0 THEN Fail(PyError("ZeroDivisionError"), 0)
                     ELSE Ok(PyInt(a - b * floordiv(a, b)), 0)
      [] op = "/" -> IF b = 0 THEN Fail(PyError("ZeroDivisionError"), 0)
                     ELSE Ok(PyFloat(a, b), 0)
      [] op = "<" -> Ok(PyBool(a < b), 0)
      [] op = "<=" -> Ok(PyBool(a <= b), 0)
      [] op = ">" -> Ok(PyBool(a > b), 0)
      [] op = ">=" -> Ok(PyBool(a >= b), 0)
      [] op = "==" -> Ok(PyBool(a = b), 0)
      [] op = "!=" -> Ok(PyBool(a # b), 0)
      [] OTHER -> Fail(PyError("SyntaxError"), 0)

\* The value of an expression in the globals env; `and` and `or` evaluate
\* their right operand only when the left one does not decide.
RECURSIVE py_value(_, _)
py_value(node, env) ==
    CASE node.kind = "Constant" -> Ok(node.value, 0)
      [] node.kind = "Name" ->
            IF node.id \in DOMAIN env THEN Ok(env[node.id], 0)
            ELSE Fail(PyError("NameError"), 0)
      [] node.kind = "UnaryOp" ->
            Then(py_value(node.operand, env), LAMBDA v:
            IF node.op = "not" THEN Ok(PyBool(~truth(v.node)), 0)
            ELSE Ok(PyInt(0 - int_of(v.node)), 0))
      [] node.kind = "BinOp" ->
            Then(py_value(node.left, env), LAMBDA l:
            IF node.op = "and" THEN (IF truth(l.node) THEN py_value(node.right, env) ELSE l)
            ELSE IF node.op = "or"
            THEN (IF truth(l.node) THEN l ELSE py_value(node.right, env))
            ELSE Then(py_value(node.right, env), LAMBDA r:
                 py_operator(node.op, int_of(l.node), int_of(r.node))))

\* eval(text, env)
py_eval(text, env) == Then(py_expression(text), LAMBDA e: py_value(e.node, env))

\* The header of the block line i is in: the last line before i that is less
\* indented.  Line i is indented.
BlockHeader(lines, i) ==
    CHOOSE h \in 1..(i - 1) :
        /\ Depth(lines[h]) < Depth(lines[i])
        /\ \A k \in (h + 1)..(i - 1) : Depth(lines[k]) >= Depth(lines[i])

\* The first line after the block of the header h, Len(lines) + 1 if none.
BlockEnd(lines, h) ==
    CHOOSE j \in (h + 1)..(Len(lines) + 1) :
        /\ j <= Len(lines) => Depth(lines[j]) <= Depth(lines[h])
        /\ \A k \in (h + 1)..(j - 1) : Depth(lines[k]) > Depth(lines[h])

\* The line control goes to when the statement that begins at line i is
\* over: the next statement of the block, or, at the end of a block, back to
\* the header of a while block and past the statement of an if or else block.
RECURSIVE Resume(_, _)
Resume(lines, i) ==
    LET j == IF IsHeader(lines[i]) THEN BlockEnd(lines, i) ELSE i + 1 IN
    IF j <= Len(lines) /\ Depth(lines[j]) = Depth(lines[i])
    THEN (IF Code(lines[j])[1] = "else" THEN Resume(lines, j) ELSE j)
    ELSE IF Depth(lines[i]) = 0 THEN Len(lines) + 1
    ELSE IF Code(lines[BlockHeader(lines, i)])[1] = "while" THEN BlockHeader(lines, i)
    ELSE Resume(lines, BlockHeader(lines, i))

\* What compiling the lines reports: a header without an indented block
\* after it, or a line indented without a header before it.
IndentationError(lines) ==
    \/ lines # <<>> /\ Depth(lines[1]) # 0
    \/ \E i \in 1..Len(lines) :
          IF IsHeader(lines[i])
          THEN i = Len(lines) \/ Depth(lines[i + 1]) # Depth(lines[i]) + 1
          ELSE i < Len(lines) /\ Depth(lines[i + 1]) > Depth(lines[i])

\* globals()[name] = value
Assigned(env, name, value) ==
    [n \in DOMAIN env \cup {name} |-> IF n = name THEN value ELSE env[n]]

\* A statement goes on with the value of its expression, or ends with the
\* exception the evaluation raised, the state being as it was.
Evaluated(r, state, Effect(_)) ==
    IF r.err # None
    THEN [env |-> state.env, printed |-> state.printed, next |-> state.next, err |-> r.err]
    ELSE Effect(r.node)

\* The execution of the statement or header at line i: the globals after it,
\* what it printed, the line control goes to and the exception raised.
py_step(lines, i, env) ==
    LET code == Code(lines[i])
        done(e, printed, next) ==
            [env |-> e, printed |-> printed, next |-> next, err |-> None]
        run(text, Effect(_)) ==
            Evaluated(py_eval(text, env), [env |-> env, printed |-> <<>>, next |-> i],
                      Effect)
    IN
    CASE code[1] = "print" ->
            run(SubSeq(code, 3, Len(code) - 1),
                LAMBDA v: done(env, <<v>>, Resume(lines, i)))
      [] code[1] = "while" ->
            run(SubSeq(code, 3, Len(code) - 1),
                LAMBDA v: done(env, <<>>, IF truth(v) THEN i + 1 ELSE Resume(lines, i)))
      [] code[1] = "if" ->
            run(SubSeq(code, 3, Len(code) - 1),
                LAMBDA v: done(env, <<>>,
                    IF truth(v) THEN i + 1
                    ELSE IF BlockEnd(lines, i) <= Len(lines)
                            /\ Depth(lines[BlockEnd(lines, i)]) = Depth(lines[i])
                            /\ Code(lines[BlockEnd(lines, i)])[1] = "else"
                    THEN BlockEnd(lines, i) + 1
                    ELSE Resume(lines, i)))
      [] code[1] \notin {"print", "while", "if"} /\ code[2] = ":" ->
            run(SubSeq(code, 8, Len(code)),
                LAMBDA v: done(Assigned(env, code[1], v), <<>>, Resume(lines, i)))
      [] OTHER ->
            run(SubSeq(code, 5, Len(code)),
                LAMBDA v: done(Assigned(env, code[1], v), <<>>, Resume(lines, i)))

\* The statements of a program, those inside blocks included, with the init
\* and the update of the for statements.
RECURSIVE AllStatements(_)
AllStatements(statements) ==
    IF statements = <<>> THEN {}
    ELSE LET node == Head(statements) IN
         {node} \cup AllStatements(Blocks(node)) \cup AllStatements(Tail(statements))
         \cup (IF node.kind = "ForStatement"
               THEN {n \in {node.init, node.update} : n # None} ELSE {})

\* The program has only statements of the kinds modelled above.
Runnable ==
    \A node \in AllStatements(ast.statements) :
        /\ node.kind \in {"Declaration", "Assignment", "PrintStatement", "IfStatement",
                          "WhileStatement", "ForStatement"}
        /\ node.kind = "Assignment" => ~Indexed(node)

\* exec(python_code): the text is compiled, then run from its first line.
StartPython ==
    /\ pc = "python"
    /\ Runnable
    /\ IF IndentationError(PyLines(python_code))
       THEN pc' = "exited" /\ exception' = PyError("IndentationError") /\ UNCHANGED frames
       ELSE IF PyLines(python_code) = <<>>
       THEN pc' = "exited" /\ UNCHANGED <<exception, frames>>
       ELSE pc' = "running" /\ frames' = <<[f_lineno |-> 1]>> /\ UNCHANGED exception
    /\ UNCHANGED <<source, tokens, ast, symbols, python_code, outcome, calls, visited>>

\* The interpreter executes the line it is at.
ExecuteLine ==
    /\ pc = "running"
    /\ Len(visited) < MaxSteps
    /\ LET lines == PyLines(python_code)
           step == py_step(lines, frames[1].f_lineno, symbols)
       IN  /\ visited' = Append(visited, frames[1].f_lineno)
           /\ IF step.err # None
              THEN /\ pc' = "exited"
                   /\ exception' = step.err
                   /\ UNCHANGED <<symbols, calls, frames>>
              ELSE /\ symbols' = step.env
                   /\ calls' = calls \o step.printed
                   /\ UNCHANGED exception
                   /\ IF step.next > Len(lines)
                      THEN pc' = "exited" /\ frames' = <<>>
                      ELSE pc' = "running" /\ frames' = <<[f_lineno |-> step.next]>>
    /\ UNCHANGED <<source, tokens, ast, python_code, outcome>>

GenNext ==
    \/ GenerateCode
    \/ StartPython
    \/ ExecuteLine

GenSpec == GenInit /\ [][GenNext]_vars


(***************************************************************************)
(* The text the generator returns and what it does when Python runs it.    *)
(***************************************************************************)
SimpleKinds == {"Declaration", "Assignment", "PrintStatement"}

\* Every statement of the program is a declaration, an assignment or a print.
Flat == \A k \in 1..Len(ast.statements) : ast.statements[k].kind \in SimpleKinds

\* The index expression written between the brackets of an indexed assignment.
WrittenIndex(node) == parse_expression(tokens, TokenAt(node) + 1).node

\* C14: for an indexed assignment `a[i] = v;` parsed from source the line
\* emitted is `a[<code of i>] = <code of v>`, <code of i> being the lowering
\* of the index expression written in the source.
C14_IndexedAssignmentLine ==
    pc = "python" /\ Flat =>
        \A k \in 1..Len(ast.statements) :
            ast.statements[k].kind = "Assignment" /\ Indexed(ast.statements[k]) =>
                outcome.output[k] =
                    <<Target(ast.statements[k]), "[">>
                    \o gen_expression(WrittenIndex(ast.statements[k]))
                    \o <<"]", " ", "=", " ">>
                    \o gen_expression(ast.statements[k].value)

\* A generator about to emit at indentation level L.
At(L) == [CodeGenerator EXCEPT !.indent_level = L]

\* The lines emitted for the statements at level L.
Lines(statements, L) == gen_statements(statements, At(L)).output

Levels == 0..2

\* The lines of a for statement at level L: init, while, body, update.
ForLayout(node, L) ==
    LET init == IF node.init # None THEN Lines(<<node.init>>, L) ELSE <<>>
        guard == IF node.condition # None THEN gen_expression(node.condition)
                 ELSE <<"True">>
        update == IF node.update # None THEN Lines(<<node.update>>, L + 1) ELSE <<>>
    IN  /\ Lines(<<node>>, L) =
               init \o <<indent(L) \o <<"while", " ">> \o guard \o <<":">>>>
                    \o Lines(node.body, L + 1) \o update
        /\ node.init # None => Len(init) = 1 /\ Spaces(init[1]) = 4 * L
        /\ node.update # None =>
              /\ node.update.kind = "Assignment"
              /\ Len(update) = 1
              /\ Spaces(update[1]) = 4 * (L + 1)

\* The program is one for statement with an update.
ForWithUpdate ==
    /\ Len(ast.statements) = 1
    /\ ast.statements[1].kind = "ForStatement"
    /\ ast.statements[1].update # None

\* The line of the condition check and the line of the update.
CheckLine == IF ast.statements[1].init # None THEN 2 ELSE 1
UpdateLine == Len(PyLines(python_code))

Count(line) == Cardinality({j \in 1..Len(visited) : visited[j] = line})

\* C15: a ForStatement at level L is emitted as its init at level L, then
\* `while <condition>:` at level L (`while True:` without a condition), then
\* the body at level L + 1, then the update at level L + 1 as the last line of
\* the block.  In the run of a for program control goes from the update to
\* the condition check and comes back to the check only from the update, a
\* run that ends without an exception ends on a check after as many updates
\* as checks but one, and no update runs when the first check fails.
C15_ForLowering ==
    /\ pc = "python" =>
          \A node \in AllStatements(ast.statements), L \in Levels :
              node.kind = "ForStatement" => ForLayout(node, L)
    /\ pc \in {"running", "exited"} /\ ForWithUpdate =>
          /\ \A j \in 1..Len(visited) :
                /\ visited[j] = CheckLine /\ j > CheckLine => visited[j - 1] = UpdateLine
                /\ visited[j] = UpdateLine /\ j < Len(visited) =>
                      visited[j + 1] = CheckLine
                /\ visited[j] = UpdateLine /\ j = Len(visited) /\ exception = None =>
                      pc = "running" /\ frames[1].f_lineno = CheckLine
          /\ pc = "exited" /\ exception = None =>
                /\ visited[Len(visited)] = CheckLine
                /\ Count(CheckLine) = Count(UpdateLine) + 1
                /\ Len(visited) = CheckLine => Count(UpdateLine) = 0

\* `for (int i = 0; i < 2; i = i + 1) { print(i); }` has run to its end: two
\* rounds of body and update, three checks.
C15_TwoIterations ==
    /\ pc = "exited"
    /\ exception = None
    /\ ForWithUpdate
    /\ calls = <<PyInt(0), PyInt(1)>>
    /\ visited = <<1, 2, 3, 4, 2, 3, 4, 2>>

\* An expression node and the expression nodes below it.
RECURSIVE SubExpressions(_)
SubExpressions(node) ==
    LET below(nodes) == UNION {SubExpressions(nodes[k]) : k \in 1..Len(nodes)} IN
    {node} \cup
    CASE node.kind = "BinaryOp" -> below(<<node.left, node.right>>)
      [] node.kind = "UnaryOp" -> below(<<node.operand>>)
      [] node.kind = "ArrayAccess" -> below(<<node.array, node.index>>)
      [] node.kind = "ArrayLiteral" -> below(node.elements)
      [] node.kind = "FunctionCall" -> below(node.arguments)
      [] OTHER -> {}

\* The expressions a statement holds itself, its blocks apart.
StatementExpressions(node) ==
    CASE node.kind \in {"Declaration", "Assignment"} -> SubExpressions(node.value)
      [] node.kind = "PrintStatement" -> SubExpressions(node.expression)
      [] node.kind \in {"IfStatement", "WhileStatement"} -> SubExpressions(node.condition)
      [] node.kind = "ForStatement" /\ node.condition # None -> SubExpressions(node.condition)
      [] node.kind = "ReturnStatement" /\ node.expression # None ->
            SubExpressions(node.expression)
      [] OTHER -> {}

\* Every expression node of the program.
ProgramExpressions ==
    UNION {StatementExpressions(node) : node \in AllStatements(ast.statements)}

\* The parentheses open after the first j pieces of a text.
Open(text, j) ==
    Cardinality({k \in 1..j : text[k] = "("}) - Cardinality({k \in 1..j : text[k] = ")"})

\* The piece that closes the parenthesis the text begins with.
Matching(text) == CHOOSE j \in 1..Len(text) :
    Open(text, j) = 0 /\ \A k \in 1..(j - 1) : Open(text, k) > 0

\* The Python spelling of an operator.
Rendered(operator) ==
    CASE operator = "&&" -> "and"
      [] operator = "||" -> "or"
      [] operator = "!" -> "not"
      [] operator = "/" -> "//"
      [] OTHER -> operator

\* The Python expression p has the shape of the AST node: the same operators
\* over the same operands, grouped the same way.
RECURSIVE SameShape(_, _)
SameShape(node, p) ==
    CASE node.kind = "Number" -> p = PyConstant(PyInt(node.value))
      [] node.kind = "Boolean" -> p = PyConstant(PyBool(node.value))
      [] node.kind = "Identifier" -> p = PyName(node.name)
      [] node.kind = "BinaryOp" ->
            /\ p.kind = "BinOp"
            /\ p.op = Rendered(node.operator)
            /\ SameShape(node.left, p.left)
            /\ SameShape(node.right, p.right)
      [] node.kind = "UnaryOp" ->
            /\ p.kind = "UnaryOp"
            /\ p.op = Rendered(node.operator)
            /\ SameShape(node.operand, p.operand)
      [] OTHER -> FALSE

TwoPlusThreeTimesFour == <<"int", "x", "=", "2", "+", "3", "*", "4", ";">>
TwentyMinusTenMinusFive == <<"x", "=", "20", "-", "10", "-", "5", ";">>

\* C16: the text of every UnaryOp and BinaryOp node begins with '(' and ends
\* with the matching ')', no piece of it is && || or !, and read by its
\* parentheses alone the text is the expression the AST is: same operators
\* (and, or, not for && || !), same operands, same grouping.  `2 + 3 * 4`
\* gives `(2 + (3 * 4))` and `20 - 10 - 5` gives `((20 - 10) - 5)`.
C16_Parenthesised ==
    pc = "python" =>
        /\ \A node \in ProgramExpressions :
              node.kind \in {"UnaryOp", "BinaryOp"} =>
                  LET text == gen_expression(node) IN
                  /\ text[1] = "("
                  /\ text[Len(text)] = ")"
                  /\ Matching(text) = Len(text)
                  /\ \A k \in 1..Len(text) : text[k] \notin {"&&", "||", "!"}
                  /\ py_expression(text).err = None
                  /\ SameShape(node, py_expression(text).node)
        /\ source = Text(TwoPlusThreeTimesFour) =>
              python_code = <<"x", ":", " ", "int", " ", "=", " ">>
                  \o <<"(", "2", " ", "+", " ", "(", "3", " ", "*", " ", "4", ")", ")">>
        /\ source = Text(TwentyMinusTenMinusFive) =>
              python_code = <<"x", " ", "=", " ">>
                  \o <<"(", "(", "20", " ", "-", " ", "10", ")", " ", "-", " ", "5", ")">>

\* `print(a || b && !!c);` was generated as `print((a or (b and (not (not
\* c)))))`: && below ||, the two ! below &&.
C16_OrAndNotNot ==
    /\ pc = "python"
    /\ Len(ast.statements) = 1
    /\ ast.statements[1].kind = "PrintStatement"
    /\ ast.statements[1].expression.kind = "BinaryOp"
    /\ ast.statements[1].expression.operator = "||"
    /\ ast.statements[1].expression.right.kind = "BinaryOp"
    /\ ast.statements[1].expression.right.operator = "&&"
    /\ ast.statements[1].expression.right.right.kind = "UnaryOp"
    /\ ast.statements[1].expression.right.right.operator = "!"
    /\ python_code = <<"print", "(">>
          \o <<"(", "a", " ", "or", " ", "(", "b", " ", "and", " ">>
          \o <<"(", "not", " ", "(", "not", " ", "c", ")", ")", ")", ")">>
          \o <<")">>

\* floor(a / b) by its definition: the integer q with q * b <= a < (q + 1) * b
\* for b > 0, and with q * b >= a > (q + 1) * b for b < 0.
Floor(a, b) ==
    CHOOSE q \in (0 - MaxOperand - 1)..(MaxOperand + 1) :
        IF b > 0 THEN q * b <= a /\ a < (q + 1) * b
        ELSE q * b >= a /\ a > (q + 1) * b

\* The source is print(a op b);
Arithmetic(a, op, b) ==
    source = <<"p", "r", "i", "n", "t", "(">> \o Operand(a) \o <<" ", op, " ">>
                 \o Operand(b) \o <<")", ";">>

\* C17: `/` is emitted as `//` and `%` as `%`; print(a / b); run to its end
\* has printed floor(a / b), the quotient rounded toward negative infinity,
\* and print(a % b); has printed a - b * floor(a / b), for all a and all b # 0
\* of the range: 15 / 2 is 7, (0 - 7) / 2 is -4 and 17 % 5 is 2.
C17_FloorDivision ==
    /\ pc = "python" =>
          \A node \in ProgramExpressions :
              node.kind = "BinaryOp" /\ node.operator \in {"/", "%"} =>
                  LET text == gen_expression(node)
                      left == gen_expression(node.left)
                  IN  text[Len(left) + 3] = IF node.operator = "/" THEN "//" ELSE "%"
    /\ pc = "exited" =>
          \A a \in Operands, b \in Operands \ {0} :
              /\ Arithmetic(a, "/", b) =>
                    exception = None /\ calls = <<PyInt(Floor(a, b))>>
              /\ Arithmetic(a, "%", b) =>
                    exception = None /\ calls = <<PyInt(a - b * Floor(a, b))>>
    /\ Floor(15, 2) = 7
    /\ Floor(0 - 7, 2) = 0 - 4
    /\ 17 - 5 * Floor(17, 5) = 2

\* print((0 - 7) / 2); has printed -4.
C17_MinusSevenByTwo ==
    /\ pc = "exited"
    /\ Arithmetic(0 - 7, "/", 2)
    /\ calls = <<PyInt(0 - 4)>>

\* The number of enclosing blocks of each line emitted for the statements,
\* which are inside d blocks: every statement has its line, else has one,
\* a for statement has one for its init and one for its update, and a
\* function has its `pass` when the body is empty and the empty line after it.
RECURSIVE Enclosing(_, _)
Enclosing(statements, d) ==
    IF statements = <<>> THEN <<>>
    ELSE LET node == Head(statements) IN
         ( CASE node.kind = "IfStatement" ->
                    <<d>> \o Enclosing(node.then_block, d + 1)
                    \o (IF node.else_block # None /\ node.else_block.items # <<>>
                        THEN <<d>> \o Enclosing(node.else_block.items, d + 1) ELSE <<>>)
             [] node.kind = "WhileStatement" -> <<d>> \o Enclosing(node.body, d + 1)
             [] node.kind = "ForStatement" ->
                    (IF node.init # None THEN <<d>> ELSE <<>>)
                    \o <<d>> \o Enclosing(node.body, d + 1)
                    \o (IF node.update # None THEN <<d + 1>> ELSE <<>>)
             [] node.kind = "FunctionDeclaration" ->
                    <<d>> \o (IF node.body # <<>> THEN Enclosing(node.body, d + 1)
                              ELSE <<d + 1>>)
                    \o <<d>>
             [] OTHER -> <<d>> )
         \o Enclosing(Tail(statements), d)

\* C18: every line emitted is prefixed by exactly four spaces per enclosing
\* block, and the text returned is those lines; a program of n declarations,
\* assignments and prints gives n lines, line k the line of statement k; the
\* indentation counter is never negative, is after the visit of a statement
\* what it was before it, and is 0 when generate returns.
C18_Indentation ==
    pc = "python" =>
        /\ Len(outcome.output) = Len(Enclosing(ast.statements, 0))
        /\ \A k \in 1..Len(outcome.output) :
              Spaces(outcome.output[k]) = 4 * Enclosing(ast.statements, 0)[k]
        /\ outcome.output # <<>> => SplitLines(python_code) = outcome.output
        /\ Flat =>
              /\ Len(outcome.output) = Len(ast.statements)
              /\ \A k \in 1..Len(ast.statements) :
                    <<outcome.output[k]>> = Lines(<<ast.statements[k]>>, 0)
        /\ \A k \in 1..Len(outcome.levels) : outcome.levels[k] >= 0
        /\ \A node \in AllStatements(ast.statements), L \in Levels :
              gen_statement(node, At(L)).indent_level = L
        /\ outcome.indent_level = 0

\* A statement inside a for inside a while inside a function was emitted
\* behind twelve spaces, and the counter is back at 0.
C18_ThreeBlocksDeep ==
    /\ pc = "python"
    /\ \E k \in 1..Len(outcome.output) :
          Spaces(outcome.output[k]) = 12 /\ Len(outcome.output[k]) > 12
    /\ \E k \in 1..Len(outcome.levels) : outcome.levels[k] = 3
    /\ outcome.indent_level = 0

(***************************************************************************)
(* The lexer on texts, as tests/lexer/test_lexer.py calls it: lexer =       *)
(* Lexer(source), then tokens = lexer.tokenize().  outcome is the Lexer     *)
(* object, tokens the list the caller was returned and exception the        *)
(* exception that left tokenize.                                            *)
(***************************************************************************)
MaxChars == 3

\* A letter, a digit, a blank, a line break, the characters of the
\* two-character operators, a character of no token, the underscore and a
\* digit that is not decimal.
LexAlphabet == {"a", "7", " ", "\n", "&", "|", "=", "@", "_", "²"}

LexSources == SeqsUpTo(LexAlphabet, MaxChars)

LexInit ==
    /\ pc = "test"
    /\ source \in LexSources
    /\ tokens = <<>>
    /\ ast = None
    /\ symbols = EmptySymbols
    /\ frames = <<>>
    /\ python_code = <<>>
    /\ exception = None
    /\ outcome = None
    /\ calls = <<>>
    /\ visited = <<>>

\* lexer = Lexer(source)
NewLexer ==
    /\ pc = "test"
    /\ outcome' = Lexer(source)
    /\ pc' = "lexer"
    /\ UNCHANGED <<source, tokens, ast, symbols, frames, python_code, exception, calls,
                   visited>>

\* tokens = lexer.tokenize()
CallTokenize ==
    /\ pc = "lexer"
    /\ LET lexed == tokenize(outcome) IN
       /\ outcome' = lexed.lexer
       /\ IF lexed.err = None
          THEN pc' = "returned" /\ tokens' = lexed.lexer.tokens /\ UNCHANGED exception
          ELSE pc' = "raised" /\ exception' = lexed.err /\ UNCHANGED tokens
    /\ UNCHANGED <<source, ast, symbols, frames, python_code, calls, visited>>

\* again = lexer.tokenize(), a second call on the same Lexer.  The list the
\* first call returned is the object self.tokens, which the second call
\* appends to and returns: tokens reads that one list after the call, and
\* calls keeps what the caller read in it before the call and what the
\* second call returned.
TokenizeAgain ==
    /\ pc \in {"returned", "raised"}
    /\ LET lexed == tokenize(outcome) IN
       /\ outcome' = lexed.lexer
       /\ IF lexed.err = None
          THEN /\ pc' = "returned again"
               /\ calls' = <<tokens, lexed.lexer.tokens>>
               /\ tokens' = IF pc = "returned" THEN lexed.lexer.tokens ELSE tokens
               /\ UNCHANGED exception
          ELSE /\ pc' = "raised again"
               /\ exception' = lexed.err
               /\ UNCHANGED <<tokens, calls>>
    /\ UNCHANGED <<source, ast, symbols, frames, python_code, visited>>

LexNext ==
    \/ NewLexer
    \/ CallTokenize
    \/ TokenizeAgain

LexSpec == LexInit /\ [][LexNext]_vars

\* C19: tokenize() on a fresh Lexer returns a list that ends in an EOF token
\* and has no other EOF token, or raises LexerError and returns nothing; the
\* empty text gives [EOF].
C19_TokensOrLexerError ==
    /\ pc = "returned" =>
          /\ tokens # <<>>
          /\ tokens[Len(tokens)].type = "EOF"
          /\ \A k \in 1..(Len(tokens) - 1) : tokens[k].type # "EOF"
          /\ source = <<>> => tokens = <<Token("EOF", None, 1, 1)>>
    /\ pc = "raised" => exception.kind = "LexerError" /\ tokens = <<>>

\* The characters a token can begin with, the digits and the letters being
\* those of isdigit and isalpha; & and | begin one when doubled.
TokenStarts ==
    Digits \cup OtherDigits \cup Letters
    \cup {"_", "+", "-", "*", "/", "%", "=", "!", "<", ">", ";", "(", ")", "{", "}",
          "[", "]", ","}

\* The number of characters equal to source[p] that stand in a row right
\* before position p.
RECURSIVE RunBefore(_)
RunBefore(p) ==
    IF p > 1 /\ source[p - 1] = source[p] THEN 1 + RunBefore(p - 1) ELSE 0

\* source[p] cannot start a token: it is neither whitespace nor a character
\* a token begins with, nor the first or the second half of && or ||.
CannotStart(p) ==
    /\ source[p] \notin Whitespace \cup TokenStarts
    /\ source[p] \in {"&", "|"} =>
          /\ RunBefore(p) % 2 = 0
          /\ ~(p < Len(source) /\ source[p + 1] = source[p])

\* The first such position, in source order.
FirstBad == CHOOSE p \in 1..Len(source) :
    CannotStart(p) /\ \A q \in 1..(p - 1) : ~CannotStart(q)

LineOf(p) == 1 + Cardinality({q \in 1..(p - 1) : source[q] = "\n"})

ColumnOf(p) ==
    LET breaks == {q \in 1..(p - 1) : source[q] = "\n"} IN
    IF breaks = {} THEN p ELSE p - (CHOOSE q \in breaks : \A r \in breaks : r <= q)

\* C20: tokenize raises LexerError with the line and the column of the first
\* character, in source order, that cannot start a token, whenever the text
\* has such a character, a '&' not followed by '&' and a '|' not followed by
\* '|' included; and it raises LexerError on no other text.
C20_FirstBadCharacter ==
    pc \in {"returned", "raised"} =>
        IF \E p \in 1..Len(source) : CannotStart(p)
        THEN /\ pc = "raised"
             /\ exception.kind = "LexerError"
             /\ exception.line = LineOf(FirstBad)
             /\ exception.column = ColumnOf(FirstBad)
        ELSE exception = None \/ exception.kind # "LexerError"

\* The characters of a token as the text has them: the numeral of a NUMBER
\* (the texts have no numeral with a leading zero), the value of any other.
Lexeme(t) == IF t.type = "NUMBER" THEN str(t.value) ELSE t.value

\* The n characters of the text from position p on, as one string.
RECURSIVE Spelled(_, _)
Spelled(p, n) == IF n = 0 THEN "" ELSE Spelled(p, n - 1) \o source[p + n - 1]

\* The position in the text, counted from 1, that has this line and column;
\* Len(source) + 1 is the position just past the last character.
OffsetOf(t) ==
    CHOOSE p \in 1..(Len(source) + 1) : LineOf(p) = t.line /\ ColumnOf(p) = t.column

\* Where the token before tokens[k] ends: the first position after it.
EndOfPrevious(k) ==
    IF k = 1 THEN 1 ELSE OffsetOf(tokens[k - 1]) + Len(Lexeme(tokens[k - 1]))

\* (line, column) of s is before that of t.
Precedes(s, t) == s.line < t.line \/ (s.line = t.line /\ s.column < t.column)

\* C21: every token tokenize returns carries the line (1 + the line breaks
\* before it) and the column (1 + the characters since the last line break)
\* of its first character: the text spells the token at that position and
\* has only whitespace between the end of the token before and it; the
\* positions increase strictly, and EOF carries the position just past the
\* last character.
C21_TokenPositions ==
    pc = "returned" =>
        /\ \A k \in 1..Len(tokens) :
              \E p \in 1..(Len(source) + 1) :
                  LineOf(p) = tokens[k].line /\ ColumnOf(p) = tokens[k].column
        /\ \A k \in 1..(Len(tokens) - 1) :
              /\ OffsetOf(tokens[k]) + Len(Lexeme(tokens[k])) <= Len(source) + 1
              /\ Spelled(OffsetOf(tokens[k]), Len(Lexeme(tokens[k]))) = Lexeme(tokens[k])
              /\ Precedes(tokens[k], tokens[k + 1])
        /\ \A k \in 1..Len(tokens) :
              /\ EndOfPrevious(k) <= OffsetOf(tokens[k])
              /\ \A q \in EndOfPrevious(k)..(OffsetOf(tokens[k]) - 1) :
                    source[q] \in Whitespace
        /\ tokens[Len(tokens)].type = "EOF"
        /\ OffsetOf(tokens[Len(tokens)]) = Len(source) + 1

\* A token in the second column of the second line, EOF right after it.
C21_SecondLineSecondColumn ==
    /\ pc = "returned"
    /\ Len(tokens) = 2
    /\ tokens[1].type = "IDENTIFIER" /\ tokens[1].line = 2 /\ tokens[1].column = 2
    /\ tokens[2].type = "EOF" /\ tokens[2].line = 2 /\ tokens[2].column = 3

\* C28: a second tokenize() on a Lexer whose first call returned returns the
\* token sequence the first call returned, which ends in an EOF token and
\* has no other, and leaves the list the first call returned as the caller
\* read it before.
C28_SecondTokenize ==
    (pc = "returned again" /\ exception = None) =>
        /\ calls[2] = calls[1]
        /\ calls[2][Len(calls[2])].type = "EOF"
        /\ \A k \in 1..(Len(calls[2]) - 1) : calls[2][k].type # "EOF"
        /\ tokens = calls[1]

(***************************************************************************)
(* The parser on token lists, as tests/parser/test_parser.py calls it:     *)
(* parser = Parser(tokens), then ast = parser.parse().  outcome is the     *)
(* Parser object and tokens the list it was given, which the lexer made    *)
(* from source: it ends in its only EOF token.  parse_program runs one     *)
(* iteration of its loop per step; ast.statements is its local list        *)
(* statements, ast the Program once it returned.                           *)
(***************************************************************************)
MaxTokens == 3
MaxParseStatements == 2

\* A name, a number, the punctuation of statements, two keywords that begin
\* a statement, one that cannot and an operator.
ParseAlphabet ==
    {"x", "1", "=", ";", "(", ")", "{", "}", "[", "]", "int", "if", "else", "!"}

\* Every sequence of up to MaxTokens of them: few are programs.
TokenSoup == SeqsUpTo(ParseAlphabet, MaxTokens)

\* Statements of every kind, an expression with every form of factor, and a
\* declaration and a return without their ';'.
ParseStatements ==
    { <<"int", "x", "=", "1", ";">>,
      <<"x", "=", "1", ";">>,
      <<"a", "[", "i", "]", "=", "x", ";">>,
      <<"print", "(", "x", ")", ";">>,
      <<"return", "x", ";">>,
      <<"return", ";">>,
      <<"if", "(", "c", ")", "{", "x", "=", "1", ";", "}", "else", "{", "}">>,
      <<"while", "(", "c", ")", "{", "print", "(", "x", ")", ";", "}">>,
      <<"function", "f", "(", "int", "a", ",", "bool", "b", ")", "{", "}">>,
      <<"x", "=", "!", "-", "(", "1", "+", "f", "(", "a", ",", "[", "1", ",", "2", "]",
        ")", "[", "0", "]", ")", "*", "2", ";">>,
      <<"int", "x", "=", "1">>,
      <<"return">> }

StatementLists == {Flatten(p) : p \in SeqsUpTo(ParseStatements, MaxParseStatements)}

\* Blocks left open at the end of the text.
Unclosed ==
    { <<"if", "(", "c", ")", "{">>,
      <<"int", "x", "=", "1", ";", "if", "(", "c", ")", "{", "x", "=", "1", ";">>,
      <<"if", "(", "c", ")", "{", "}", "else", "{", "print", "(", "x", ")", ";">>,
      <<"while", "(", "c", ")", "{", "if", "(", "c", ")", "{", "}">>,
      <<"for", "(", ";", ";", ")", "{">>,
      <<"function", "f", "(", ")", "{", "x", "=", "1", ";">> }

\* The parts of a for header, each present or absent, the init with its ';'.
\* An update is also tried with an indexed target and with a ';' after it,
\* and the second ';' is also left out.
InitParts ==
    { <<";">>,
      <<"int", "i", "=", "0", ";">>,
      <<"i", "=", "0", ";">>,
      <<"a", "[", "i", "]", "=", "x", ";">> }
ConditionParts == {<<>>, <<"i", "<", "3">>}
SecondSemicolon == {<<";">>, <<>>}
UpdateParts ==
    { <<>>,
      <<"i", "=", "i", "+", "1">>,
      <<"a", "[", "i", "]", "=", "x">>,
      <<"i", "=", "i", "+", "1", ";">> }
ForBlocks == {<<>>, <<"print", "(", "i", ")", ";">>}

For(init, condition, semicolon, update, block) ==
    <<"for", "(">> \o init \o condition \o semicolon \o update \o <<")", "{">>
    \o block \o <<"}">>

ForStatements ==
    {For(i, c, s, u, b) : i \in InitParts, c \in ConditionParts, s \in SecondSemicolon,
                          u \in UpdateParts, b \in ForBlocks}

ParseSources ==
    {Text(p) : p \in TokenSoup \cup StatementLists \cup Unclosed \cup ForStatements}

ParseInit ==
    /\ pc = "test"
    /\ source \in ParseSources
    /\ tokens = tokenize(Lexer(source)).lexer.tokens
    /\ ast = None
    /\ symbols = EmptySymbols
    /\ frames = <<>>
    /\ python_code = <<>>
    /\ exception = None
    /\ outcome = None
    /\ calls = <<>>
    /\ visited = <<>>

\* parser = Parser(tokens); parser.parse() enters parse_program: statements = []
NewParser ==
    /\ pc = "test"
    /\ outcome' = Parser(tokens)
    /\ ast' = Program(<<>>)
    /\ pc' = "parse_program"
    /\ UNCHANGED <<source, tokens, symbols, frames, python_code, exception, calls,
                   visited>>

\* One iteration of parse_program's loop: statements.append(parse_statement()).
\* A list of n tokens has fewer than n statements.
ParseStatement ==
    /\ pc = "parse_program"
    /\ more_statements(outcome.tokens, outcome.pos)
    /\ Len(ast.statements) < Len(tokens)
    /\ \E r \in {parse_statement(outcome.tokens, outcome.pos)} :
       /\ outcome' = [outcome EXCEPT !.pos = r.pos]
       /\ IF r.err = None
          THEN /\ ast' = Program(Append(ast.statements, r.node))
               /\ UNCHANGED <<pc, exception>>
          ELSE /\ pc' = "raised"
               /\ exception' = r.err
               /\ ast' = None
    /\ UNCHANGED <<source, tokens, symbols, frames, python_code, calls, visited>>

\* The loop ends: return Program(statements)
ReturnProgram ==
    /\ pc = "parse_program"
    /\ ~more_statements(outcome.tokens, outcome.pos)
    /\ pc' = "returned"
    /\ UNCHANGED <<source, tokens, ast, symbols, frames, python_code, exception,
                   outcome, calls, visited>>

ParseNext ==
    \/ NewParser
    \/ ParseStatement
    \/ ReturnProgram

ParseSpec == ParseInit /\ [][ParseNext]_vars

\* The same parser for the questions of termination: the test is followed
\* from before it has its text, and the parser is not stopped between two
\* steps.
ParseLiveInit ==
    /\ pc = "source"
    /\ source = <<>>
    /\ tokens = <<>>
    /\ ast = None
    /\ symbols = EmptySymbols
    /\ frames = <<>>
    /\ python_code = <<>>
    /\ exception = None
    /\ outcome = None
    /\ calls = <<>>
    /\ visited = <<>>

\* The pool with the sequences of lexemes one shorter.
LiveSources ==
    {Text(p) : p \in SeqsUpTo(ParseAlphabet, MaxTokens - 1) \cup StatementLists
                     \cup Unclosed \cup ForStatements}

\* tokens = Lexer(source).tokenize(), for a text of the pool
ReadSource ==
    /\ pc = "source"
    /\ \E text \in LiveSources :
          /\ source' = text
          /\ tokens' = tokenize(Lexer(text)).lexer.tokens
    /\ pc' = "test"
    /\ UNCHANGED <<ast, symbols, frames, python_code, exception, outcome, calls, visited>>

ParseLiveNext ==
    \/ ReadSource
    \/ NewParser
    \/ ParseStatement
    \/ ReturnProgram

ParseLiveSpec == ParseLiveInit /\ [][ParseLiveNext]_vars /\ WF_vars(ParseLiveNext)

\* The steps of parse_program build what parse() returns or raises.
StepsAgreeWithParse ==
    /\ pc = "returned" => parse(tokens) = Ok(ast, outcome.pos)
    /\ pc = "raised" => parse(tokens) = Fail(exception, outcome.pos)

\* What the functions of the parser that move the cursor return when they
\* are entered with the cursor at p.
SubParses(p) ==
    << parse_statement(tokens, p), parse_block(tokens, p), parse_expression(tokens, p),
       parse_comparison(tokens, p), parse_term(tokens, p), parse_unary(tokens, p),
       parse_factor(tokens, p), parse_for_init(tokens, p), parse_for_condition(tokens, p),
       parse_for_update(tokens, p), parse_params(tokens, p),
       expect(tokens, p, "SEMICOLON"), expect(tokens, p, "RBRACE"),
       Ok(None, advance(tokens, p)) >>

InRange(pos) == 0 <= pos /\ pos <= Len(tokens) - 1

\* None of them leaves the cursor before p or out of range.
NoneBack(p, returned) ==
    \A f \in DOMAIN returned : p <= returned[f].pos /\ InRange(returned[f].pos)

\* parse() has been entered and has parsed nothing yet.
Entered == pc = "parse_program" /\ ast.statements = <<>> /\ outcome.pos = 0

CursorInRange ==
    /\ pc # "test" => InRange(outcome.pos)
    /\ Entered => \A p \in 0..(Len(tokens) - 1) : NoneBack(p, SubParses(p))
    /\ pc = "returned" =>
          /\ ast.kind = "Program"
          /\ outcome.pos = Len(tokens) - 1
          /\ current_token(outcome.tokens, outcome.pos).type = "EOF"

\* C22: on a token list that ends in its EOF token the cursor never
\* decreases, from one iteration of parse_program to the next and from the
\* entry to the exit of every parsing function entered at any position, and
\* stays within 0..len(tokens)-1; when parse() returns a Program the cursor
\* is on the EOF token, the last of the list.
C22_Cursor ==
    /\ []CursorInRange
    /\ [][pc # "test" => outcome'.pos >= outcome.pos]_vars

\* Two statements parsed, the second one with a block, and the cursor on the
\* EOF token.
C22_TwoStatementsConsumed ==
    /\ pc = "returned"
    /\ Len(ast.statements) = 2
    /\ ast.statements[2].kind = "WhileStatement"
    /\ outcome.pos = Len(tokens) - 1
    /\ outcome.pos > 10

\* The kinds the parser calls expect with.
ExpectedKinds ==
    {"IDENTIFIER", "ASSIGN", "SEMICOLON", "LPAREN", "RPAREN", "LBRACE", "RBRACE",
     "RBRACKET", "PRINT", "IF", "WHILE", "FOR", "FUNCTION", "RETURN"}

\* The kinds of token a statement begins with.
StatementStarts ==
    {"INT", "BOOL", "PRINT", "IF", "WHILE", "FOR", "FUNCTION", "RETURN", "IDENTIFIER"}

\* expect(kind) on a token of another kind raises ParserError with both
\* kinds and the token and leaves the cursor on it; parse_statement on a
\* token no statement begins with reports `expected statement` with it.
ExpectRaises ==
    Entered =>
        \A p \in 0..(Len(tokens) - 1) :
            /\ \A kind \in ExpectedKinds \ {tokens[p + 1].type} :
                  expect(tokens, p, kind) =
                      Fail(ParserError("Expected " \o kind \o ", got " \o tokens[p + 1].type,
                                       tokens[p + 1]), p)
            /\ tokens[p + 1].type \notin StatementStarts =>
                  parse_statement(tokens, p) =
                      Fail(ParserError("Unexpected token " \o tokens[p + 1].type
                                       \o ", expected statement", tokens[p + 1]), p)

\* parse() raised: a ParserError that carries the token the cursor is still
\* on, and no Program.
StoppedAtToken ==
    pc = "raised" =>
        /\ exception.kind = "ParserError"
        /\ exception.token = current_token(outcome.tokens, outcome.pos)
        /\ ast = None

\* The token list with a ';' put before the EOF token.
WithSemicolon(toks) ==
    SubSeq(toks, 1, Len(toks) - 1)
    \o <<Token("SEMICOLON", ";", toks[Len(toks)].line, toks[Len(toks)].column),
         toks[Len(toks)]>>

\* The text is a program but for a ';' missing at its end.
MissingSemicolon == parse(tokens).err # None /\ parse(WithSemicolon(tokens)).err = None

\* The text ends in a return with neither an expression nor a ';'.
BareReturn == Len(tokens) > 1 /\ tokens[Len(tokens) - 1].type = "RETURN"

ExpectedSemicolonAtEOF ==
    /\ exception.message = "Expected SEMICOLON, got EOF"
    /\ exception.token = tokens[Len(tokens)]

\* C23: expect(kind) on a token of another kind raises ParserError naming
\* both kinds and carrying the token, without advancing; parse() then raises
\* with the cursor on that token, returns no Program and takes no further
\* step; a token no statement begins with reports `expected statement`; a
\* text that lacks only the ';' at its end reports `Expected SEMICOLON, got
\* EOF` at the EOF token, except that a bare `return` at the end reports
\* `Unexpected token EOF, expected expression` at the EOF token.
C23_ExpectStops ==
    /\ [](/\ ExpectRaises
          /\ StoppedAtToken
          /\ (pc = "raised" /\ MissingSemicolon) =>
                IF BareReturn
                THEN /\ exception.message = "Unexpected token EOF, expected expression"
                     /\ exception.token = tokens[Len(tokens)]
                ELSE ExpectedSemicolonAtEOF)
    /\ [][pc # "raised"]_vars

\* A declaration after a first statement lacks its ';' at the end of input.
C23_SemicolonMissingAfterDeclaration ==
    /\ pc = "raised"
    /\ MissingSemicolon
    /\ ~BareReturn
    /\ outcome.pos = Len(tokens) - 1
    /\ outcome.pos > 4
    /\ tokens[outcome.pos].type = "NUMBER"
    /\ ExpectedSemicolonAtEOF

\* C23 as stated: every text that lacks only the ';' at its end reports
\* `Expected SEMICOLON` at the EOF token.
C23_AsStated ==
    /\ [](/\ ExpectRaises
          /\ StoppedAtToken
          /\ (pc = "raised" /\ MissingSemicolon) => ExpectedSemicolonAtEOF)
    /\ [][pc # "raised"]_vars

\* The 0-based positions of the ';' tokens, and the n-th of them in order.
Semicolons == {p \in 0..(Len(tokens) - 1) : tokens[p + 1].type = "SEMICOLON"}

NthSemicolon(n) ==
    CHOOSE p \in Semicolons : Cardinality({q \in Semicolons : q < p}) = n - 1

\* The update parts that are `identifier = expression` and nothing more.
PlainUpdates == {<<>>, <<"i", "=", "i", "+", "1">>}

\* The init node is the one the init part spells.
InitAs(node, init) ==
    CASE init = <<";">> -> node = None
      [] init = <<"int", "i", "=", "0", ";">> ->
            /\ node.kind = "Declaration" /\ node.var_type = "int" /\ node.name = "i"
            /\ node.value.kind = "Number" /\ node.value.value = 0
      [] init = <<"i", "=", "0", ";">> ->
            /\ node.kind = "Assignment" /\ node.name = "i"
            /\ node.value.kind = "Number" /\ node.value.value = 0
      [] OTHER ->
            /\ node.kind = "Assignment"
            /\ node.value.kind = "Identifier" /\ node.value.name = "x"

ConditionAs(node, condition) ==
    IF condition = <<>> THEN node = None
    ELSE /\ node.kind = "BinaryOp" /\ node.operator = "<"
         /\ node.left.kind = "Identifier" /\ node.left.name = "i"
         /\ node.right.kind = "Number" /\ node.right.value = 3

UpdateAs(node, update) ==
    IF update = <<>> THEN node = None
    ELSE /\ node.kind = "Assignment" /\ node.name = "i"
         /\ node.value.kind = "BinaryOp" /\ node.value.operator = "+"
         /\ node.value.left.kind = "Identifier" /\ node.value.right.kind = "Number"

\* parse() returned one ForStatement with these parts, having taken the
\* first ';' with the init, a second ';' after the condition, and the update
\* up to the ')'.
ParsedFor(init, condition, update, block) ==
    /\ pc = "returned"
    /\ Len(ast.statements) = 1
    /\ ast.statements[1].kind = "ForStatement"
    /\ InitAs(ast.statements[1].init, init)
    /\ ConditionAs(ast.statements[1].condition, condition)
    /\ UpdateAs(ast.statements[1].update, update)
    /\ Len(ast.statements[1].body) = (IF block = <<>> THEN 0 ELSE 1)
    /\ parse_for_init(tokens, 2) = Ok(ast.statements[1].init, NthSemicolon(1) + 1)
    /\ parse_for_condition(tokens, NthSemicolon(1) + 1) =
           Ok(ast.statements[1].condition, NthSemicolon(2) + 1)
    /\ parse_for_update(tokens, NthSemicolon(2) + 1).err = None
    /\ parse_for_update(tokens, NthSemicolon(2) + 1).node = ast.statements[1].update
    /\ tokens[parse_for_update(tokens, NthSemicolon(2) + 1).pos + 1].type = "RPAREN"

\* C24: `for ( init? ; cond? ; update? ) { stmt* }` parses, for each of the
\* eight combinations of present and absent parts, to a ForStatement whose
\* init, condition and update are None exactly for the absent parts and the
\* nodes of the written parts otherwise; the first ';' is taken with the
\* init, present or absent; without the second ';', or with a ';' after the
\* update, parse() raises.
C24_ForParts ==
    (pc \in {"returned", "raised"} /\ tokens[1].type = "FOR") =>
        \A i \in InitParts, c \in ConditionParts, s \in SecondSemicolon,
           u \in UpdateParts, b \in ForBlocks :
            source = Text(For(i, c, s, u, b)) =>
                CASE s = <<";">> /\ u \in PlainUpdates -> ParsedFor(i, c, u, b)
                  [] s = <<";">> /\ u = <<"i", "=", "i", "+", "1", ";">> ->
                        /\ pc = "raised"
                        /\ exception.message = "Expected RPAREN, got SEMICOLON"
                  [] OTHER -> pc = "raised"

\* `for (;;) { }` parsed: all three parts None.
C24_AllAbsent ==
    /\ pc = "returned"
    /\ Len(tokens) = 8
    /\ Len(ast.statements) = 1
    /\ ast.statements[1].kind = "ForStatement"
    /\ ast.statements[1].init = None
    /\ ast.statements[1].condition = None
    /\ ast.statements[1].update = None

IndexedAssignment == <<"a", "[", "i", "]", "=", "x">>

\* parse() raised `Expected ASSIGN, got LBRACKET` with the '[' token that
\* follows the first token of the update part, the cursor on it.
RejectedAtBracket ==
    /\ pc = "raised"
    /\ exception.kind = "ParserError"
    /\ exception.message = "Expected ASSIGN, got LBRACKET"
    /\ exception.token = tokens[NthSemicolon(2) + 3]
    /\ exception.token.type = "LBRACKET"
    /\ outcome.pos = NthSemicolon(2) + 2

CountOf(type) == Cardinality({p \in 1..Len(tokens) : tokens[p].type = type})

\* What each loop iteration and each descent of the parser rests on: advance
\* moves the cursor over every token but the EOF token, a statement, an
\* expression, a unary and a factor that are parsed have moved it, and on
\* the EOF token each of them raises.
Consumes ==
    Entered =>
        /\ \A p \in 0..(Len(tokens) - 2) :
              /\ advance(tokens, p) = p + 1
              /\ \A f \in 1..4 :
                    SubParses(p)[f + 3].err = None => SubParses(p)[f + 3].pos > p
              /\ parse_statement(tokens, p).err = None => parse_statement(tokens, p).pos > p
        /\ parse_statement(tokens, Len(tokens) - 1).err # None
        /\ parse_unary(tokens, Len(tokens) - 1).err # None
        /\ parse_factor(tokens, Len(tokens) - 1).err # None

\* parse() has ended: a Program was returned or ParserError was raised, the
\* latter whenever a '{' has no '}'.
Ended ==
    /\ pc = "returned" => ast.kind = "Program" /\ exception = None
    /\ pc = "raised" => exception.kind = "ParserError" /\ ast = None
    /\ (pc \in {"returned", "raised"} /\ CountOf("LBRACE") > CountOf("RBRACE")) =>
          pc = "raised"

\* C30: on every token list that ends in its EOF token parse() ends, by
\* returning a Program or by raising ParserError; every parsed statement,
\* expression, unary and factor has consumed a token, every advance over a
\* token other than EOF moves the cursor, and a text whose block is left
\* open ends with an error.
C30_ParseTerminates ==
    /\ [](Consumes /\ Ended)
    /\ <>(pc \in {"returned", "raised"})

\* `if (c) {` and the end of input: parse() raised at the EOF token.
C30_UnclosedIfRaised ==
    /\ source = Text(<<"if", "(", "c", ")", "{">>)
    /\ pc = "raised"
    /\ exception.message = "Unexpected token EOF, expected statement"
    /\ exception.token = tokens[Len(tokens)]
    /\ outcome.pos = 5

\* C27: in the text the generator returns every line that ends in ':' (an
\* if, else, while or def header) is followed by a line, the next one that
\* is not blank, at a deeper indentation level, also when the block written
\* in the source is empty.
C27_HeaderHasBody ==
    pc = "python" =>
        \A k \in 1..Len(PyLines(python_code)) :
            IsHeader(PyLines(python_code)[k]) =>
                /\ k < Len(PyLines(python_code))
                /\ Depth(PyLines(python_code)[k + 1]) > Depth(PyLines(python_code)[k])

(***************************************************************************)
(* Several compile_source invocations in one process.  An invocation       *)
(* starts at the def line with a new source argument; what the earlier     *)
(* invocations left behind (token list, tree, symbol table, output lines,  *)
(* exception) stays where it is, so that only the constructors the body    *)
(* calls (Lexer, Parser, SemanticAnalyzer, CodeGenerator) stand between    *)
(* one invocation and the next.  Head(calls) is the history of the         *)
(* finished invocations; the stage names of the running one follow it.     *)
(***************************************************************************)
MaxCompilations == 3

SessionPrograms ==
    { <<>>,
      <<"int", "x", "=", "1", ";", "print", "(", "x", ")", ";">>,
      <<"bool", "x", "=", "true", ";">>,
      <<"int", "y", "=", "x", ";">>,
      <<"x", "=", "1", ";">>,
      <<"int", "y", "=", "1", "&", "2", ";">>,
      <<"int", "y", "=", ";">>,
      <<"if", "(", "true", ")", "{", "int", "x", "=", "1", ";", "}",
        "while", "(", "true", ")", "{", "}">>,
      <<"for", "(", ";", ";", ")", "{", "}",
        "function", "f", "(", "bool", "x", ")", "{", "return", "x", ";", "}">> }

SessionSources == {Text(p) : p \in SessionPrograms}

\* What one invocation is seen to do: its argument, the token sequence its
\* lexer returned (None when tokenize raised) and what it returned or raised.
Compilation(src, toks, out) == [source |-> src, tokens |-> toks, outcome |-> out]

Finished == Head(calls)

\* tokenize of the running invocation has returned.
Tokenized == \E k \in 2..Len(calls) : calls[k] = "parse"

Running == Compilation(source, IF Tokenized THEN tokens ELSE None, outcome)

SessionInit ==
    /\ pc = "start"
    /\ source \in SessionSources
    /\ tokens = <<>>
    /\ ast = None
    /\ symbols = EmptySymbols
    /\ frames = <<>>
    /\ python_code = <<>>
    /\ exception = None
    /\ outcome = None
    /\ calls = << <<>> >>
    /\ visited = <<>>

\* The next call of compile_source, after the last one returned or raised.
CompileSource ==
    /\ pc = "done"
    /\ Len(Finished) + 1 < MaxCompilations
    /\ pc' = "start"
    /\ source' \in SessionSources
    /\ calls' = <<Append(Finished, Running)>>
    /\ UNCHANGED <<tokens, ast, symbols, frames, python_code, exception, outcome,
                   visited>>

SessionNext ==
    \/ CompileSource
    \/ Next

SessionSpec == SessionInit /\ [][SessionNext]_vars

\* C25: an invocation of compile_source that has finished returned or raised
\* the same, and got the same token sequence from its lexer, as every earlier
\* invocation on the same source text, whatever was compiled in between.
C25_NoSharedState ==
    pc = "done" =>
        \A k \in 1..Len(Finished) :
            Finished[k].source = source => Finished[k] = Running

\* A text compiled first in the process and again after a text of another
\* outcome: the declaration of x is accepted both times although the failed
\* compilation in between is of a text that reads x.
C25_SameTextAfterAnother ==
    /\ pc = "done"
    /\ Len(Finished) = 2
    /\ Finished[1].source = source
    /\ Finished[2].source # source
    /\ Finished[2].outcome.kind = "CompilerError"
    /\ outcome.kind = "str"
    /\ Len(tokens) > 1

(***************************************************************************)
(* An analyzer with an explicit scope stack in place of the copy and the   *)
(* restore of visit_function_declaration.  scopes is the stack, innermost  *)
(* scope first; a scope is a table like SymbolTable.symbols.  Expressions  *)
(* and the checks of each statement are those of the analyzer above, read  *)
(* against the bindings the stack makes visible.                           *)
(***************************************************************************)

\* The type of a name: that of the innermost scope that binds it.
RECURSIVE resolve(_, _)
resolve(scopes, name) ==
    IF name \in DOMAIN Head(scopes) THEN Head(scopes)[name]
    ELSE resolve(Tail(scopes), name)

\* The table a lookup through the stack amounts to.
Visible(scopes) ==
    [n \in UNION {DOMAIN scopes[k] : k \in 1..Len(scopes)} |-> resolve(scopes, n)]

\* A name bound in the innermost scope.
bind(scopes, name, var_type) ==
    [scopes EXCEPT ![1] = [n \in DOMAIN @ \cup {name} |->
                              IF n = name THEN var_type ELSE @[n]]]

\* The scope pushed at function entry: the parameters, a later one of the
\* same name replacing an earlier one.
RECURSIVE child_scope(_, _)
child_scope(params, scope) ==
    IF params = <<>> THEN scope
    ELSE child_scope(Tail(params),
                     [n \in DOMAIN scope \cup {Head(params)[2]} |->
                        IF n = Head(params)[2] THEN Head(params)[1] ELSE scope[n]])

\* A declaration is rejected when its name is visible in any scope and is
\* bound in the innermost scope otherwise: [scopes, err]
scoped_declare(scopes, r, name, var_type) ==
    [scopes |-> IF r.err = None THEN bind(scopes, name, var_type) ELSE scopes,
     err |-> r.err]

Checked(scopes, err) == [scopes |-> scopes, err |-> err]

RECURSIVE scoped_statement(_, _)
RECURSIVE scoped_statements(_, _)
scoped_statements(stmts, scopes) ==
    IF stmts = <<>> THEN Checked(scopes, None)
    ELSE LET first == scoped_statement(Head(stmts), scopes) IN
         IF first.err # None THEN first
         ELSE scoped_statements(Tail(stmts), first.scopes)

scoped_header(node, scopes) ==
    LET init == IF node.init # None THEN scoped_statement(node.init, scopes)
                ELSE Checked(scopes, None) IN
    IF init.err # None THEN init ELSE
    LET cond == IF node.condition # None
                THEN visit_expression(node.condition, Visible(init.scopes)).err
                ELSE None IN
    IF cond # None THEN Checked(init.scopes, cond) ELSE
    IF node.update # None THEN scoped_statement(node.update, init.scopes)
    ELSE init

scoped_function(node, scopes) ==
    LET d == scoped_declare(scopes,
                            declare(Visible(scopes), node.name, node.return_type,
                                    node.line, node.column),
                            node.name, node.return_type) IN
    IF d.err # None THEN d ELSE
    LET body == scoped_statements(node.body,
                                  <<child_scope(node.params, EmptySymbols)>> \o d.scopes) IN
    IF body.err # None THEN body
    ELSE Checked(Tail(body.scopes), None)

scoped_statement(node, scopes) ==
    CASE node.kind = "Declaration" ->
            scoped_declare(scopes, visit_declaration(node, Visible(scopes)),
                           node.name, node.var_type)
      [] node.kind = "Assignment" ->
            Checked(scopes, visit_assignment(node, Visible(scopes)).err)
      [] node.kind = "PrintStatement" ->
            Checked(scopes, visit_print_statement(node, Visible(scopes)).err)
      [] node.kind = "ReturnStatement" ->
            Checked(scopes, visit_return_statement(node, Visible(scopes)).err)
      [] node.kind = "IfStatement" ->
            LET c == check_condition(node, Visible(scopes), "If") IN
            IF c # None THEN Checked(scopes, c)
            ELSE scoped_statements(if_blocks(node), scopes)
      [] node.kind = "WhileStatement" ->
            LET c == check_condition(node, Visible(scopes), "While") IN
            IF c # None THEN Checked(scopes, c)
            ELSE scoped_statements(node.body, scopes)
      [] node.kind = "ForStatement" ->
            LET header == scoped_header(node, scopes) IN
            IF header.err # None THEN header
            ELSE scoped_statements(node.body, header.scopes)
      [] node.kind = "FunctionDeclaration" -> scoped_function(node, scopes)

\* analyze with the scope stack: the first error, or None.
scoped_analyze(program) == scoped_statements(program.statements, <<EmptySymbols>>).err

\* The analyzer has returned or raised.
AnalyzeReturned == pc = "generate"
AnalyzeRaised == pc = "except" /\ calls # <<>> /\ calls[Len(calls)] = "analyze"

\* C26: the analyzer with the scope stack accepts the programs that the
\* analyzer with the copy and the restore accepts, and rejects every other
\* program with the same first error.
C26_ScopeStackAgrees ==
    /\ AnalyzeReturned => scoped_analyze(ast) = None
    /\ AnalyzeRaised => scoped_analyze(ast) = exception

\* A function nested in a function, each with a parameter x that shadows
\* the x of the enclosing scope, the global x being an int: both analyzers
\* accept it.
C26_NestedShadowingAccepted ==
    /\ AnalyzeReturned
    /\ source = Text(<<"int", "x", "=", "1", ";">>
                     \o Wrap(8, <<"int", "y", "=", "x", ";">>))
    /\ scoped_analyze(ast) = None

=============================================================================
